---- MODULE Spec2Model ----
(***************************************************************************)
(* Model of the Harmony lexer (src/docs/harmony/lexer.ts) and of the       *)
(* Harmony parser (src/unnamed/part_004, "parser.ts").                     *)
(*                                                                         *)
(* A source text is a sequence of one-character strings; the empty string  *)
(* "" is the lexer's end-of-input character (this.ch = '').  Positions are *)
(* 0-based as in the source, so input[i] of the source is input[i + 1]     *)
(* here.  A token literal is the sequence of its characters.               *)
(***************************************************************************)
EXTENDS Integers, Sequences, FiniteSets, TLC

(***************************************************************************)
(* Bounds of the model.                                                    *)
(***************************************************************************)
\* longest source text enumerated character by character
MaxLen == 3
\* most lines of a source text built from indented lines
MaxLines == 3
\* most nextToken() calls made after the first EOF was returned
MaxEofCalls == 2
\* most lines of a source text handed to the parser
MaxStmtLines == 3
\* most nextToken() calls a parser makes after the first EOF was returned
MaxParserEofCalls == 4
\* most diagnostics recorded by the calls made on the token window
MaxWindowErrors == 2
\* most statements of a block of a source text
MaxBlockLines == 2
\* most elif branches of an if statement of a source text
MaxElifs == 2
\* most elements of a list or of an argument list of a source text
MaxElements == 2
\* most characters behind the opening quote of a string of a source text
MaxStringBody == 4
\* most diagnostics recorded while the statement loop of a block is followed
MaxLoopErrors == 4

(***************************************************************************)
(* Program constants.                                                      *)
(***************************************************************************)
\* a tab counts as 4 columns of indentation
TabWidth == 4

\* const v = ...; the binding of a value that the code after it uses
With(v, Op(_)) == Op(v)

VARIABLES
    lexer,      \* the Lexer instance (its private fields)
    returned,   \* every token returned by Lexer.nextToken(), in call order
    lpc,        \* what the lexer's caller is doing: "tokenize", "pull", "returned",
                \* or "parser" when the caller is a Parser
    parser,     \* the Parser instance (its private fields), Undefined before new
    program,    \* the Program node parseProgram() builds and returns; for a call
                \* of another parse function, what that call returned
    ppc,        \* where the parser's caller is: "idle" (no parser), "new",
                \* "constructed", "loop", "hang", "done"
    psteps,     \* how many steps the parser's caller has taken
    scan        \* the parser's lexer tabulated: what this.lexer.nextToken()
                \* returns in each state the lexer can be in, <<>> without parser

vars == <<lexer, returned, lpc, parser, program, ppc, psteps, scan>>

(***************************************************************************)
(* Characters.                                                             *)
(***************************************************************************)
LowerLetters == {"a", "b", "c", "d", "e", "f", "g", "h", "i", "j", "k", "l", "m",
                 "n", "o", "p", "q", "r", "s", "t", "u", "v", "w", "x", "y", "z"}
UpperLetters == {"A", "B", "C", "D", "E", "F", "G", "H", "I", "J", "K", "L", "M",
                 "N", "O", "P", "Q", "R", "S", "T", "U", "V", "W", "X", "Y", "Z"}
Digits == {"0", "1", "2", "3", "4", "5", "6", "7", "8", "9"}

isLetter(ch) == ch \in LowerLetters \cup UpperLetters \cup {"_"}

isDigit(ch) == ch \in Digits

(***************************************************************************)
(* Tokens.                                                                 *)
(***************************************************************************)
Token(type, literal, line, column) ==
    [type |-> type, literal |-> literal, line |-> line, column |-> column]

keywords ==
    { << <<"l", "e", "t">>, "LET" >>,
      << <<"v", "a", "r">>, "VAR" >>,
      << <<"f", "u", "n", "c">>, "FUNC" >>,
      << <<"c", "l", "a", "s", "s">>, "CLASS" >>,
      << <<"i", "n", "i", "t">>, "INIT" >>,
      << <<"s", "e", "l", "f">>, "SELF" >>,
      << <<"i", "f">>, "IF" >>,
      << <<"e", "l", "i", "f">>, "ELIF" >>,
      << <<"e", "l", "s", "e">>, "ELSE" >>,
      << <<"w", "h", "i", "l", "e">>, "WHILE" >>,
      << <<"f", "o", "r">>, "FOR" >>,
      << <<"i", "n">>, "IN" >>,
      << <<"r", "e", "t", "u", "r", "n">>, "RETURN" >>,
      << <<"t", "r", "u", "e">>, "TRUE" >>,
      << <<"f", "a", "l", "s", "e">>, "FALSE" >>,
      << <<"a", "n", "d">>, "AND" >>,
      << <<"o", "r">>, "OR" >>,
      << <<"n", "o", "t">>, "NOT" >> }

lookupIdentifier(identifier) ==
    IF \E k \in keywords : k[1] = identifier
    THEN (CHOOSE k \in keywords : k[1] = identifier)[2]
    ELSE "IDENTIFIER"

\* the literal of the NEWLINE token: a backslash and the letter n
NewlineLiteral == <<"\\", "n">>

\* the literal 'Invalid indentation'
InvalidIndentation ==
    <<"I", "n", "v", "a", "l", "i", "d", " ",
      "i", "n", "d", "e", "n", "t", "a", "t", "i", "o", "n">>

\* the literal 'Unterminated string'
UnterminatedString ==
    <<"U", "n", "t", "e", "r", "m", "i", "n", "a", "t", "e", "d", " ",
      "s", "t", "r", "i", "n", "g">>

(***************************************************************************)
(* Lexer: character cursor.                                                *)
(***************************************************************************)
readChar(L) ==
    [L EXCEPT !.ch = IF L.readPosition >= Len(L.input)
                     THEN ""
                     ELSE L.input[L.readPosition + 1],
              !.position = L.readPosition,
              !.readPosition = L.readPosition + 1,
              !.column = L.column + 1]

peekChar(L) ==
    IF L.readPosition >= Len(L.input) THEN "" ELSE L.input[L.readPosition + 1]

isAtEnd(L) == L.position >= Len(L.input)

\* input.slice(from, to)
slice(input, from, to) == SubSeq(input, from + 1, to)

\* the field initialisers and the constructor
Lexer(input) ==
    readChar([input |-> input, position |-> 0, readPosition |-> 0, ch |-> "",
              line |-> 1, column |-> 0, indentStack |-> <<0>>,
              tokens |-> <<>>, pendingTokens |-> <<>>])

Top(stack) == stack[Len(stack)]

Pop(stack) == SubSeq(stack, 1, Len(stack) - 1)

(***************************************************************************)
(* Lexer: whitespace and indentation.                                      *)
(***************************************************************************)
\* the loop that counts the leading spaces and tabs of a line
RECURSIVE skipWhitespace_count(_, _)
skipWhitespace_count(L, indent) ==
    IF L.ch = " " THEN skipWhitespace_count(readChar(L), indent + 1)
    ELSE IF L.ch = "\t" THEN skipWhitespace_count(readChar(L), indent + TabWidth)
    ELSE [lexer |-> L, indent |-> indent]

\* variant: enqueues the INDENT and forgets to push the new level
skipWhitespace_indent_noPush(L, indent) ==
    [L EXCEPT !.pendingTokens = Append(@, Token("INDENT", <<>>, L.line, 0))]

\* increased indentation: one push, one INDENT
skipWhitespace_indent(L, indent) ==
    [L EXCEPT !.indentStack = Append(@, indent),
              !.pendingTokens = Append(@, Token("INDENT", <<>>, L.line, 0))]

\* variant: unwinds without checking that the indent matches a level
RECURSIVE skipWhitespace_dedent_noCheck(_, _)
skipWhitespace_dedent_noCheck(L, indent) ==
    IF indent < Top(L.indentStack)
    THEN skipWhitespace_dedent_noCheck(
             [L EXCEPT !.indentStack = Pop(@),
                       !.pendingTokens = Append(@, Token("DEDENT", <<>>, L.line, 0))],
             indent)
    ELSE L

\* decreased indentation: the loop that pops and enqueues DEDENTs
RECURSIVE skipWhitespace_dedent(_, _)
skipWhitespace_dedent(L, indent) ==
    IF indent < Top(L.indentStack)
    THEN LET popped == [L EXCEPT
                 !.indentStack = Pop(@),
                 !.pendingTokens = Append(@, Token("DEDENT", <<>>, L.line, 0))]
         IN  IF indent > Top(popped.indentStack)
             THEN [popped EXCEPT !.pendingTokens =
                       Append(@, Token("ILLEGAL", InvalidIndentation, L.line, 0))]
             ELSE skipWhitespace_dedent(popped, indent)
    ELSE L

\* the indentation processing at the beginning of a line
skipWhitespace_indentation(L) ==
    IF L.column = 1
    THEN LET counted == skipWhitespace_count(L, 0)
             L1 == counted.lexer
             indent == counted.indent
             currentIndent == Top(L1.indentStack)
         IN  IF L1.ch # "\n" /\ L1.ch # "\r" /\ L1.ch # "#" /\ L1.ch # ""
             THEN IF indent > currentIndent THEN skipWhitespace_indent(L1, indent)
                  ELSE IF indent < currentIndent THEN skipWhitespace_dedent(L1, indent)
                  ELSE L1
             ELSE L1
    ELSE L

\* the loop that skips regular whitespace (not newlines)
RECURSIVE skipWhitespace_blanks(_)
skipWhitespace_blanks(L) ==
    IF L.ch = " " \/ L.ch = "\t" \/ L.ch = "\r"
    THEN skipWhitespace_blanks(readChar(L))
    ELSE L

\* the newline handling
skipWhitespace_newline(L) ==
    IF L.ch = "\n"
    THEN readChar([L EXCEPT
             !.pendingTokens = Append(@, Token("NEWLINE", NewlineLiteral, L.line, L.column)),
             !.line = L.line + 1,
             !.column = 0])
    ELSE L

skipWhitespace(L) ==
    skipWhitespace_newline(skipWhitespace_blanks(skipWhitespace_indentation(L)))

(***************************************************************************)
(* Lexer: identifiers, numbers, strings, comments.  Each returns the lexer *)
(* after the read together with what was read.                             *)
(***************************************************************************)
RECURSIVE readIdentifier_loop(_, _)
readIdentifier_loop(L, startPosition) ==
    IF isLetter(L.ch) \/ (L.position > startPosition /\ isDigit(L.ch))
    THEN readIdentifier_loop(readChar(L), startPosition)
    ELSE L

readIdentifier(L) ==
    LET L1 == readIdentifier_loop(L, L.position)
    IN  [lexer |-> L1, identifier |-> slice(L.input, L.position, L1.position)]

RECURSIVE readNumber_digits(_)
readNumber_digits(L) ==
    IF isDigit(L.ch) THEN readNumber_digits(readChar(L)) ELSE L

readNumber(L) ==
    LET startPosition == L.position
        startColumn == L.column
        L1 == readNumber_digits(L)
        isFloat == L1.ch = "." /\ isDigit(peekChar(L1))
        L2 == IF isFloat THEN readNumber_digits(readChar(L1)) ELSE L1
        number == slice(L.input, startPosition, L2.position)
    IN  [lexer |-> L2,
         token |-> Token(IF isFloat THEN "FLOAT" ELSE "INTEGER",
                         number, L2.line, startColumn)]

\* variant: a backslash does not escape the character after it
RECURSIVE readString_loop_noEscape(_, _)
readString_loop_noEscape(L, escaped) ==
    IF L.ch # "\"" /\ ~isAtEnd(L)
    THEN LET L1 == IF L.ch = "\n"
                   THEN [L EXCEPT !.line = L.line + 1, !.column = 0]
                   ELSE L
         IN  readString_loop_noEscape(readChar(L1), FALSE)
    ELSE L

RECURSIVE readString_loop(_, _)
readString_loop(L, escaped) ==
    IF (L.ch # "\"" \/ escaped) /\ ~isAtEnd(L)
    THEN LET L1 == IF L.ch = "\n"
                   THEN [L EXCEPT !.line = L.line + 1, !.column = 0]
                   ELSE L
         IN  readString_loop(readChar(L1), L.ch = "\\" /\ ~escaped)
    ELSE L

readString(L) ==
    LET startPosition == L.position + 1
        startColumn == L.column
        L1 == readString_loop(readChar(L), FALSE)
    IN  IF L1.ch # "\""
        THEN [lexer |-> L1,
              token |-> Token("ILLEGAL", UnterminatedString, L1.line, startColumn)]
        ELSE [lexer |-> L1,
              token |-> Token("STRING", slice(L.input, startPosition, L1.position),
                              L1.line, startColumn)]

RECURSIVE readComment_loop(_)
readComment_loop(L) ==
    IF L.ch # "\n" /\ L.ch # "" THEN readComment_loop(readChar(L)) ELSE L

readComment(L) ==
    LET startPosition == L.position
        startColumn == L.column
        L1 == readComment_loop(L)
    IN  [lexer |-> L1,
         token |-> Token("COMMENT", slice(L.input, startPosition, L1.position),
                         L1.line, startColumn)]

(***************************************************************************)
(* Lexer: nextToken().  Returns the lexer after the call and the token.    *)
(***************************************************************************)
\* variant: the pending token is returned through the readChar() that ends
\* the scanning path of nextToken()
nextToken_shift_readChar(L) ==
    [lexer |-> readChar([L EXCEPT !.pendingTokens = Tail(@)]),
     token |-> Head(L.pendingTokens)]

\* return this.pendingTokens.shift()
nextToken_shift(L) ==
    [lexer |-> [L EXCEPT !.pendingTokens = Tail(@)], token |-> Head(L.pendingTokens)]

\* variant: an `if` in place of the `while`, closing one level only
nextToken_eofDedents_once(L) ==
    [L EXCEPT !.indentStack = Pop(@),
              !.pendingTokens = Append(Append(@, Token("DEDENT", <<>>, L.line, L.column)),
                                       Token("EOF", <<>>, L.line, L.column))]

\* at end of input: one DEDENT per remaining stack entry, then EOF
RECURSIVE nextToken_eofDedents(_)
nextToken_eofDedents(L) ==
    IF Len(L.indentStack) > 1
    THEN nextToken_eofDedents([L EXCEPT
             !.indentStack = Pop(@),
             !.pendingTokens = Append(@, Token("DEDENT", <<>>, L.line, L.column))])
    ELSE [L EXCEPT !.pendingTokens = Append(@, Token("EOF", <<>>, L.line, L.column))]

\* variant: the readChar() that ends nextToken() is left out
nextToken_single_noRead(L, type) ==
    [lexer |-> L, token |-> Token(type, <<L.ch>>, L.line, L.column)]

\* a one-character token, followed by the readChar() that ends nextToken()
nextToken_single(L, type) ==
    [lexer |-> readChar(L), token |-> Token(type, <<L.ch>>, L.line, L.column)]

\* variant: the peek character is not looked at
nextToken_double_noPeek(L, second, double, single) == nextToken_single(L, single)

\* a two-character token when the peek character is `second`, else `single`
nextToken_double(L, second, double, single) ==
    IF peekChar(L) = second
    THEN LET L1 == readChar(L)
         IN  [lexer |-> readChar(L1),
              token |-> Token(double, <<L.ch, L1.ch>>, L1.line, L1.column - 1)]
    ELSE nextToken_single(L, single)

\* a token read by a helper, followed by the readChar() that ends nextToken()
nextToken_thenReadChar(read) ==
    [lexer |-> readChar(read.lexer), token |-> read.token]

\* variant: the unmatched character is reported and the cursor moves twice
nextToken_default_twice(L) ==
    IF isLetter(L.ch)
    THEN LET read == readIdentifier(L)
             L1 == read.lexer
         IN  [lexer |-> L1,
              token |-> Token(lookupIdentifier(read.identifier), read.identifier,
                              L1.line, L1.column - Len(read.identifier))]
    ELSE IF isDigit(L.ch) THEN readNumber(L)
    ELSE [lexer |-> readChar(readChar(L)),
          token |-> Token("ILLEGAL", <<L.ch>>, L.line, L.column)]

\* the default case of the switch
nextToken_default(L) ==
    IF isLetter(L.ch)
    THEN LET read == readIdentifier(L)
             L1 == read.lexer
         IN  [lexer |-> L1,
              token |-> Token(lookupIdentifier(read.identifier), read.identifier,
                              L1.line, L1.column - Len(read.identifier))]
    ELSE IF isDigit(L.ch) THEN readNumber(L)
    ELSE nextToken_single(L, "ILLEGAL")

\* the switch on this.ch
nextToken_switch(L) ==
    CASE L.ch = "=" -> nextToken_double(L, "=", "EQUAL", "ASSIGN")
      [] L.ch = "+" -> nextToken_single(L, "PLUS")
      [] L.ch = "-" -> nextToken_double(L, ">", "ARROW", "MINUS")
      [] L.ch = "*" -> nextToken_single(L, "MULTIPLY")
      [] L.ch = "/" -> nextToken_single(L, "DIVIDE")
      [] L.ch = "!" -> nextToken_double(L, "=", "NOT_EQUAL", "ILLEGAL")
      [] L.ch = "<" -> nextToken_double(L, "=", "LESS_EQUAL", "LESS")
      [] L.ch = ">" -> nextToken_double(L, "=", "GREATER_EQUAL", "GREATER")
      [] L.ch = "." -> nextToken_single(L, "DOT")
      [] L.ch = "," -> nextToken_single(L, "COMMA")
      [] L.ch = ":" -> nextToken_single(L, "COLON")
      [] L.ch = "(" -> nextToken_single(L, "LEFT_PAREN")
      [] L.ch = ")" -> nextToken_single(L, "RIGHT_PAREN")
      [] L.ch = "[" -> nextToken_single(L, "LEFT_BRACKET")
      [] L.ch = "]" -> nextToken_single(L, "RIGHT_BRACKET")
      [] L.ch = "{" -> nextToken_single(L, "LEFT_BRACE")
      [] L.ch = "}" -> nextToken_single(L, "RIGHT_BRACE")
      [] L.ch = "#" -> nextToken_thenReadChar(readComment(L))
      [] L.ch = "\"" -> nextToken_thenReadChar(readString(L))
      [] L.ch = "" -> [lexer |-> readChar(L),
                       token |-> Token("EOF", <<>>, L.line, L.column)]
      [] OTHER -> nextToken_default(L)

nextToken(L) ==
    IF Len(L.pendingTokens) > 0 THEN nextToken_shift(L)
    ELSE LET L1 == skipWhitespace(L)
         IN  IF Len(L1.pendingTokens) > 0 THEN nextToken_shift(L1)
             ELSE IF L1.ch = "" /\ Len(L1.indentStack) > 1
                  THEN nextToken_shift(nextToken_eofDedents(L1))
                  ELSE nextToken_switch(L1)

\* the states a lexer goes through from L when nextToken() is called until
\* it has returned EOF and then eofCalls times more
RECURSIVE LexerStates(_, _)
LexerStates(L, eofCalls) ==
    With(nextToken(L), LAMBDA r :
    IF r.token.type # "EOF" THEN {L} \cup LexerStates(r.lexer, eofCalls)
    ELSE IF eofCalls = 0 THEN {L}
    ELSE {L} \cup LexerStates(r.lexer, eofCalls - 1))

(***************************************************************************)
(* Parser: precedence table.                                               *)
(***************************************************************************)
Precedence_LOWEST == 0
Precedence_ASSIGN == 1
Precedence_OR == 2
Precedence_AND == 3
Precedence_EQUALS == 4
Precedence_LESSGREATER == 5
Precedence_SUM == 6
Precedence_PRODUCT == 7
Precedence_PREFIX == 8
Precedence_CALL == 9
Precedence_INDEX == 10
Precedence_MEMBER == 11

\* precedences.get(type) || Precedence.LOWEST
precedences(type) ==
    CASE type = "ASSIGN" -> Precedence_ASSIGN
      [] type = "OR" -> Precedence_OR
      [] type = "AND" -> Precedence_AND
      [] type \in {"EQUAL", "NOT_EQUAL"} -> Precedence_EQUALS
      [] type \in {"LESS", "GREATER", "LESS_EQUAL", "GREATER_EQUAL"} -> Precedence_LESSGREATER
      [] type \in {"PLUS", "MINUS"} -> Precedence_SUM
      [] type \in {"MULTIPLY", "DIVIDE"} -> Precedence_PRODUCT
      [] type = "LEFT_PAREN" -> Precedence_CALL
      [] type = "LEFT_BRACKET" -> Precedence_INDEX
      [] type = "DOT" -> Precedence_MEMBER
      [] OTHER -> Precedence_LOWEST

(***************************************************************************)
(* Parser: token window and diagnostics.  A parser value P holds the       *)
(* fields of the Parser instance, its lexer included.  The AST nodes carry *)
(* their kind and their kind-specific fields; null and undefined are the   *)
(* nodes Null and Undefined.                                               *)
(***************************************************************************)
Null == [kind |-> "null"]

Undefined == [kind |-> "undefined"]

IsNull(node) == node.kind = "null"

\* one diagnostic: the fixed text of the message, the token types or names
\* interpolated into it, and the line it reports (0 when it reports none)
Error(msg, detail, line) == [msg |-> msg, detail |-> detail, line |-> line]

pushError(P, msg, detail, line) ==
    [P EXCEPT !.errors = Append(@, Error(msg, detail, line))]

\* the loop of Parser.nextToken that skips COMMENT tokens
RECURSIVE Parser_nextToken_skip(_)
Parser_nextToken_skip(r) ==
    IF r.token.type = "COMMENT" THEN Parser_nextToken_skip(scan[r.lexer]) ELSE r

Parser_nextToken(P) ==
    With(Parser_nextToken_skip(scan[P.lexer]), LAMBDA r :
    [P EXCEPT !.currentToken = P.peekToken,
              !.peekToken = r.token,
              !.lexer = r.lexer])

\* the constructor
Parser(L) ==
    With(scan[L], LAMBDA r1 :
    With(scan[r1.lexer], LAMBDA r2 :
    With(Parser_nextToken([lexer |-> r2.lexer, currentToken |-> r1.token,
                           peekToken |-> r2.token, errors |-> <<>>,
                           isInClass |-> FALSE]), LAMBDA P1 :
    IF P1.currentToken.type = "EOF" /\ P1.peekToken.type # "EOF"
    THEN Parser_nextToken(P1)
    ELSE P1)))

peekError(P, expected) ==
    pushError(P, "Expected next token to be X, got Y instead",
              <<expected, P.peekToken.type>>, P.peekToken.line)

currentTokenIs(P, type) == P.currentToken.type = type

peekTokenIs(P, type) == P.peekToken.type = type

\* variant: the token that did not match is consumed as well
expectPeek_consuming(P, type) ==
    IF peekTokenIs(P, type)
    THEN [p |-> Parser_nextToken(P), ok |-> TRUE]
    ELSE [p |-> Parser_nextToken(peekError(P, type)), ok |-> FALSE]

expectPeek(P, type) ==
    IF peekTokenIs(P, type)
    THEN [p |-> Parser_nextToken(P), ok |-> TRUE]
    ELSE [p |-> peekError(P, type), ok |-> FALSE]

peekPrecedence(P) == precedences(P.peekToken.type)

currentPrecedence(P) == precedences(P.currentToken.type)

\* the token types with a registered prefix / infix parse function
PrefixTypes ==
    {"IDENTIFIER", "INTEGER", "FLOAT", "STRING", "TRUE", "FALSE", "LEFT_PAREN",
     "LEFT_BRACKET", "LEFT_BRACE", "NOT", "MINUS", "SELF"}

InfixTypes ==
    {"PLUS", "MINUS", "MULTIPLY", "DIVIDE", "EQUAL", "NOT_EQUAL", "LESS", "GREATER",
     "LESS_EQUAL", "GREATER_EQUAL", "AND", "OR", "LEFT_PAREN", "LEFT_BRACKET", "DOT"}

\* the result of an expression parse function: the parser after it, and the
\* node it returned
Parsed(P, node) == [p |-> P, node |-> node]

Failed(P) == [p |-> P, node |-> Null]

(***************************************************************************)
(* Parser: literal values.                                                 *)
(***************************************************************************)
DigitValue(ch) ==
    CASE ch = "0" -> 0 [] ch = "1" -> 1 [] ch = "2" -> 2 [] ch = "3" -> 3
      [] ch = "4" -> 4 [] ch = "5" -> 5 [] ch = "6" -> 6 [] ch = "7" -> 7
      [] ch = "8" -> 8 [] ch = "9" -> 9

\* parseInt(literal, 10) of a run of digits
RECURSIVE parseInt(_)
parseInt(digits) ==
    IF digits = <<>> THEN 0
    ELSE 10 * parseInt(SubSeq(digits, 1, Len(digits) - 1))
             + DigitValue(digits[Len(digits)])

\* parseFloat(literal) of digits '.' digits: the integer part and the
\* fraction digits without their trailing zeros
RECURSIVE StripZeros(_)
StripZeros(digits) ==
    IF digits # <<>> /\ digits[Len(digits)] = "0"
    THEN StripZeros(SubSeq(digits, 1, Len(digits) - 1))
    ELSE digits

parseFloat(literal) ==
    LET dot == CHOOSE i \in 1..Len(literal) : literal[i] = "."
    IN  [int |-> parseInt(SubSeq(literal, 1, dot - 1)),
         frac |-> StripZeros(SubSeq(literal, dot + 1, Len(literal)))]

(***************************************************************************)
(* Parser: expressions (Pratt parser).  Every parse function returns the   *)
(* parser after the call and the node (Null for null).                     *)
(***************************************************************************)
RECURSIVE parseExpression(_, _)

Identifier(token) == [kind |-> "Identifier", name |-> token.literal]

\* the loop of parseExpressionList over the comma-separated rest
RECURSIVE parseExpressionList_rest(_, _, _)
parseExpressionList_rest(P, list, endToken) ==
    IF peekTokenIs(P, "COMMA")
    THEN With(Parser_nextToken(P), LAMBDA P1 :
         IF peekTokenIs(P1, endToken)
         THEN [p |-> Parser_nextToken(P1), list |-> list, ok |-> TRUE]
         ELSE With(parseExpression(Parser_nextToken(P1), Precedence_LOWEST), LAMBDA exp :
              IF IsNull(exp.node)
              THEN [p |-> pushError(exp.p,
                              "Expected expression after ',' in list, got X",
                              <<exp.p.currentToken.type>>, 0),
                    list |-> <<>>, ok |-> FALSE]
              ELSE parseExpressionList_rest(exp.p, Append(list, exp.node), endToken)))
    ELSE IF ~currentTokenIs(P, endToken)
         THEN With(expectPeek(P, endToken), LAMBDA x :
              IF ~x.ok
              THEN [p |-> pushError(x.p,
                              "Expected ',' or 'X' in expression list, got Y",
                              <<endToken, x.p.peekToken.type>>, 0),
                    list |-> <<>>, ok |-> FALSE]
              ELSE [p |-> x.p, list |-> list, ok |-> TRUE])
         ELSE [p |-> P, list |-> list, ok |-> TRUE]

\* returns the parser, the list and ok (FALSE for null)
parseExpressionList(P, endToken, startToken) ==
    IF peekTokenIs(P, endToken)
    THEN [p |-> Parser_nextToken(P), list |-> <<>>, ok |-> TRUE]
    ELSE With(parseExpression(Parser_nextToken(P), Precedence_LOWEST), LAMBDA firstExp :
         IF IsNull(firstExp.node)
         THEN [p |-> pushError(firstExp.p,
                         "Expected expression after 'X' in list, got Y",
                         <<startToken, firstExp.p.currentToken.type>>, 0),
               list |-> <<>>, ok |-> FALSE]
         ELSE parseExpressionList_rest(firstExp.p, <<firstExp.node>>, endToken))

parseFunctionCall(P, funcExp) ==
    With(parseExpressionList(P, "RIGHT_PAREN", "LEFT_PAREN"), LAMBDA args :
    IF ~args.ok THEN Failed(args.p)
    ELSE Parsed(args.p, [kind |-> "FunctionCall", function |-> funcExp,
                         arguments |-> args.list]))

\* variant: every identifier before '(' creates an instance
parseIdentifierOrInstanceCreation_anyCase(P) ==
    IF peekTokenIs(P, "LEFT_PAREN")
    THEN With(parseFunctionCall(Parser_nextToken(P), Identifier(P.currentToken)),
              LAMBDA callExpr :
         IF IsNull(callExpr.node) THEN Failed(callExpr.p)
         ELSE Parsed(callExpr.p,
                     [kind |-> "InstanceCreation",
                      className |-> Identifier(P.currentToken),
                      arguments |-> callExpr.node.arguments]))
    ELSE Parsed(P, Identifier(P.currentToken))

parseIdentifierOrInstanceCreation(P) ==
    IF peekTokenIs(P, "LEFT_PAREN") /\ P.currentToken.literal[1] \in UpperLetters
    THEN With(parseFunctionCall(Parser_nextToken(P), Identifier(P.currentToken)),
              LAMBDA callExpr :
         IF IsNull(callExpr.node) THEN Failed(callExpr.p)
         ELSE IF callExpr.node.kind = "FunctionCall"
         THEN Parsed(callExpr.p,
                     [kind |-> "InstanceCreation",
                      className |-> Identifier(P.currentToken),
                      arguments |-> callExpr.node.arguments])
         ELSE Failed(pushError(callExpr.p,
                  "Internal parser error: Expected FunctionCall result when parsing instance creation.",
                  <<>>, 0)))
    ELSE Parsed(P, Identifier(P.currentToken))

parseIntegerLiteral(P) ==
    IF P.currentToken.literal = <<>> \/ ~isDigit(P.currentToken.literal[1])
    THEN Failed(pushError(P, "Could not parse integer literal: X", <<>>,
                          P.currentToken.line))
    ELSE Parsed(P, [kind |-> "IntegerLiteral", value |-> parseInt(P.currentToken.literal)])

parseFloatLiteral(P) ==
    IF P.currentToken.literal = <<>> \/ ~isDigit(P.currentToken.literal[1])
    THEN Failed(pushError(P, "Could not parse float literal: X", <<>>,
                          P.currentToken.line))
    ELSE Parsed(P, [kind |-> "FloatLiteral", value |-> parseFloat(P.currentToken.literal)])

parseStringLiteral(P) ==
    Parsed(P, [kind |-> "StringLiteral", value |-> P.currentToken.literal])

parseBooleanLiteral(P) ==
    Parsed(P, [kind |-> "BooleanLiteral", value |-> currentTokenIs(P, "TRUE")])

\* P.currentToken is the operator token
parsePrefixExpression(P) ==
    With(parseExpression(Parser_nextToken(P), Precedence_PREFIX), LAMBDA operand :
    IF IsNull(operand.node)
    THEN Failed(pushError(operand.p, "Expected expression after prefix operator 'X'",
                          <<P.currentToken.literal>>, P.currentToken.line))
    ELSE Parsed(operand.p, [kind |-> "UnaryExpression",
                            operator |-> P.currentToken.literal,
                            operand |-> operand.node]))

parseGroupedExpression(P) ==
    With(parseExpression(Parser_nextToken(P), Precedence_LOWEST), LAMBDA exp :
    IF IsNull(exp.node) THEN Failed(exp.p)
    ELSE With(expectPeek(exp.p, "RIGHT_PAREN"), LAMBDA x :
         IF ~x.ok THEN Failed(x.p) ELSE Parsed(x.p, exp.node)))

parseListLiteral(P) ==
    With(parseExpressionList(P, "RIGHT_BRACKET", "LEFT_BRACKET"), LAMBDA elements :
    IF ~elements.ok THEN Failed(elements.p)
    ELSE Parsed(elements.p, [kind |-> "ListLiteral", elements |-> elements.list]))

parseDictItem(P) ==
    With(parseExpression(P, Precedence_LOWEST), LAMBDA key :
    IF IsNull(key.node)
    THEN Failed(pushError(key.p, "Expected dictionary key expression, got X",
                          <<key.p.currentToken.type>>, 0))
    ELSE With(expectPeek(key.p, "COLON"), LAMBDA x :
         IF ~x.ok
         THEN Failed(pushError(x.p, "Expected ':' after dictionary key, got X",
                               <<x.p.peekToken.type>>, 0))
         ELSE With(parseExpression(Parser_nextToken(x.p), Precedence_LOWEST), LAMBDA value :
              IF IsNull(value.node)
              THEN Failed(pushError(value.p,
                       "Expected dictionary value expression, got X",
                       <<value.p.currentToken.type>>, 0))
              ELSE Parsed(value.p, [kind |-> "DictItem", key |-> key.node,
                                    value |-> value.node]))))

\* the end of parseDictLiteral: the check for '}'
parseDictLiteral_close(P, items) ==
    IF ~currentTokenIs(P, "RIGHT_BRACE")
    THEN Failed(pushError(P, "Expected '}' or ',' to continue dictionary literal, got X",
                          <<P.currentToken.type>>, 0))
    ELSE Parsed(P, [kind |-> "DictLiteral", items |-> items])

\* the loop of parseDictLiteral over the comma-separated rest
RECURSIVE parseDictLiteral_rest(_, _)
parseDictLiteral_rest(P, items) ==
    IF peekTokenIs(P, "COMMA")
    THEN With(Parser_nextToken(P), LAMBDA P1 :
         IF peekTokenIs(P1, "RIGHT_BRACE")
         THEN parseDictLiteral_close(Parser_nextToken(P1), items)
         ELSE With(parseDictItem(Parser_nextToken(P1)), LAMBDA item :
              IF IsNull(item.node) THEN Failed(item.p)
              ELSE parseDictLiteral_rest(item.p, Append(items, item.node))))
    ELSE parseDictLiteral_close(P, items)

parseDictLiteral(P) ==
    With(Parser_nextToken(P), LAMBDA P1 :
    IF currentTokenIs(P1, "RIGHT_BRACE")
    THEN Parsed(P1, [kind |-> "DictLiteral", items |-> <<>>])
    ELSE With(parseDictItem(P1), LAMBDA firstItem :
         IF IsNull(firstItem.node) THEN Failed(firstItem.p)
         ELSE parseDictLiteral_rest(firstItem.p, <<firstItem.node>>)))

\* variant: 'self' outside a class is accepted silently
parseSelfExpression_silent(P) ==
    Parsed(P, [kind |-> "SelfExpression", name |-> <<"s", "e", "l", "f">>])

parseSelfExpression(P) ==
    Parsed(IF ~P.isInClass
           THEN pushError(P, "'self' keyword used outside of a class method or initializer",
                          <<>>, P.currentToken.line)
           ELSE P,
           [kind |-> "SelfExpression", name |-> <<"s", "e", "l", "f">>])

\* variant: the right operand is parsed with the lowest precedence
parseInfixExpression_lowest(P, left) ==
    With(parseExpression(Parser_nextToken(P), Precedence_LOWEST), LAMBDA right :
    IF IsNull(right.node)
    THEN Failed(pushError(right.p, "Expected expression after infix operator 'X'",
                          <<P.currentToken.literal>>, P.currentToken.line))
    ELSE Parsed(right.p, [kind |-> "BinaryExpression", left |-> left,
                          operator |-> P.currentToken.literal, right |-> right.node]))

\* P.currentToken is the operator token
parseInfixExpression(P, left) ==
    With(parseExpression(Parser_nextToken(P), currentPrecedence(P)), LAMBDA right :
    IF IsNull(right.node)
    THEN Failed(pushError(right.p, "Expected expression after infix operator 'X'",
                          <<P.currentToken.literal>>, P.currentToken.line))
    ELSE Parsed(right.p, [kind |-> "BinaryExpression", left |-> left,
                          operator |-> P.currentToken.literal, right |-> right.node]))

parseSubscriptAccess(P, objectExp) ==
    With(parseExpression(Parser_nextToken(P), Precedence_LOWEST), LAMBDA indexExp :
    IF IsNull(indexExp.node)
    THEN Failed(pushError(indexExp.p, "Expected index expression inside '[ ]', got X",
                          <<indexExp.p.currentToken.type>>, 0))
    ELSE With(expectPeek(indexExp.p, "RIGHT_BRACKET"), LAMBDA x :
         IF ~x.ok THEN Failed(x.p)
         ELSE Parsed(x.p, [kind |-> "SubscriptAccess", object |-> objectExp,
                           index |-> indexExp.node])))

parseMemberAccess(P, objectExp) ==
    With(expectPeek(P, "IDENTIFIER"), LAMBDA x :
    IF ~x.ok
    THEN Failed(pushError(x.p, "Expected identifier for member name after '.', got X",
                          <<x.p.peekToken.type>>, 0))
    ELSE Parsed(x.p, [kind |-> "MemberAccess", object |-> objectExp,
                      property |-> Identifier(x.p.currentToken)]))

\* this.prefixParseFns.get(type)(), for the registered types
prefixParseFns(P) ==
    CASE P.currentToken.type = "IDENTIFIER" -> parseIdentifierOrInstanceCreation(P)
      [] P.currentToken.type = "INTEGER" -> parseIntegerLiteral(P)
      [] P.currentToken.type = "FLOAT" -> parseFloatLiteral(P)
      [] P.currentToken.type = "STRING" -> parseStringLiteral(P)
      [] P.currentToken.type \in {"TRUE", "FALSE"} -> parseBooleanLiteral(P)
      [] P.currentToken.type = "LEFT_PAREN" -> parseGroupedExpression(P)
      [] P.currentToken.type = "LEFT_BRACKET" -> parseListLiteral(P)
      [] P.currentToken.type = "LEFT_BRACE" -> parseDictLiteral(P)
      [] P.currentToken.type \in {"NOT", "MINUS"} -> parsePrefixExpression(P)
      [] P.currentToken.type = "SELF" -> parseSelfExpression(P)

\* this.infixParseFns.get(type)(left), for the registered types
infixParseFns(P, left) ==
    CASE P.currentToken.type = "LEFT_PAREN" -> parseFunctionCall(P, left)
      [] P.currentToken.type = "LEFT_BRACKET" -> parseSubscriptAccess(P, left)
      [] P.currentToken.type = "DOT" -> parseMemberAccess(P, left)
      [] OTHER -> parseInfixExpression(P, left)

\* the loop of parseExpression that folds infix operators into leftExp
RECURSIVE parseExpression_loop(_, _, _)
parseExpression_loop(P, leftExp, precedence) ==
    IF /\ ~peekTokenIs(P, "NEWLINE")
       /\ ~peekTokenIs(P, "EOF")
       /\ precedence < peekPrecedence(P)
    THEN IF P.peekToken.type \notin InfixTypes
         THEN Parsed(P, leftExp)
         ELSE With(infixParseFns(Parser_nextToken(P), leftExp), LAMBDA result :
              IF IsNull(result.node) THEN Failed(result.p)
              ELSE parseExpression_loop(result.p, result.node, precedence))
    ELSE Parsed(P, leftExp)

parseExpression(P, precedence) ==
    IF P.currentToken.type \notin PrefixTypes
    THEN Failed(pushError(P, "No prefix parse function found for X",
                          <<P.currentToken.type>>, P.currentToken.line))
    ELSE With(prefixParseFns(P), LAMBDA leftExp :
         IF IsNull(leftExp.node) THEN Failed(leftExp.p)
         ELSE parseExpression_loop(leftExp.p, leftExp.node, precedence))

(***************************************************************************)
(* Parser: statements.  A statement-level parse function returns the       *)
(* parser after the call, the node (Null for null) and hang: TRUE when a   *)
(* loop inside the call repeats an iteration from the same cursor, so that *)
(* the call never returns (p is then the parser after that iteration).     *)
(***************************************************************************)
Stmt(P, node) == [p |-> P, node |-> node, hang |-> FALSE]

StmtFailed(P) == [p |-> P, node |-> Null, hang |-> FALSE]

Hangs(P) == [p |-> P, node |-> Null, hang |-> TRUE]

\* what the next parse attempt depends on, apart from the errors recorded
Cursor(P) == <<P.lexer, P.currentToken, P.peekToken>>

parseTypeAnnotation(P) ==
    With(expectPeek(P, "IDENTIFIER"), LAMBDA x :
    IF ~x.ok
    THEN Failed(pushError(x.p, "Expected type name after ':', got X",
                          <<x.p.peekToken.type>>, 0))
    ELSE Parsed(x.p, [kind |-> "TypeAnnotation",
                      typeName |-> Identifier(x.p.currentToken)]))

\* the end of a simple statement: expect NEWLINE, record an error otherwise
\* unless the current token is EOF
expectNewline(P, msg) ==
    With(expectPeek(P, "NEWLINE"), LAMBDA x :
    IF x.ok THEN x.p
    ELSE IF ~currentTokenIs(x.p, "EOF")
    THEN pushError(x.p, msg, <<x.p.currentToken.type>>, x.p.currentToken.line)
    ELSE x.p)

\* parseVariableDeclaration from the expected '=' on
parseVariableDeclaration_init(P, isConstant, identifier, typeAnnotation) ==
    With(expectPeek(P, "ASSIGN"), LAMBDA x :
    IF ~x.ok THEN StmtFailed(x.p)
    ELSE With(parseExpression(Parser_nextToken(x.p), Precedence_LOWEST),
              LAMBDA initializer :
         IF IsNull(initializer.node)
         THEN StmtFailed(pushError(initializer.p,
                  "Expected expression for variable initializer",
                  <<>>, initializer.p.currentToken.line))
         ELSE Stmt(expectNewline(initializer.p,
                       "Expected NEWLINE after variable declaration, got X"),
                   [kind |-> "VariableDeclaration", isConstant |-> isConstant,
                    identifier |-> identifier, typeAnnotation |-> typeAnnotation,
                    initializer |-> initializer.node])))

\* parseVariableDeclaration from the optional type annotation on
parseVariableDeclaration_type(P, isConstant, identifier) ==
    IF peekTokenIs(P, "COLON")
    THEN With(parseTypeAnnotation(Parser_nextToken(P)), LAMBDA typeAnnotation :
         IF IsNull(typeAnnotation.node) THEN StmtFailed(typeAnnotation.p)
         ELSE parseVariableDeclaration_init(typeAnnotation.p, isConstant, identifier,
                                            typeAnnotation.node))
    ELSE parseVariableDeclaration_init(P, isConstant, identifier, Undefined)

parseVariableDeclaration(P) ==
    With(expectPeek(P, "IDENTIFIER"), LAMBDA x :
    IF ~x.ok THEN StmtFailed(x.p)
    ELSE parseVariableDeclaration_type(x.p, currentTokenIs(P, "LET"),
                                       Identifier(x.p.currentToken)))

\* parseReturnStatement after 'return' was consumed
parseReturnStatement_value(P) ==
    IF ~currentTokenIs(P, "NEWLINE") /\ ~currentTokenIs(P, "EOF")
    THEN With(parseExpression(P, Precedence_LOWEST), LAMBDA returnValue :
         IF IsNull(returnValue.node)
         THEN StmtFailed(pushError(returnValue.p,
                  "Expected expression or newline after 'return', got X",
                  <<returnValue.p.currentToken.type>>, 0))
         ELSE Stmt(expectNewline(returnValue.p,
                       "Expected NEWLINE after return statement, got X"),
                   [kind |-> "ReturnStatement", returnValue |-> returnValue.node]))
    ELSE Stmt(expectNewline(P, "Expected NEWLINE after return statement, got X"),
              [kind |-> "ReturnStatement", returnValue |-> Undefined])

parseReturnStatement(P) == parseReturnStatement_value(Parser_nextToken(P))

parseExpressionStatement(P) ==
    With(parseExpression(P, Precedence_LOWEST), LAMBDA expression :
    IF IsNull(expression.node)
    THEN StmtFailed(pushError(expression.p,
             "Unexpected token X when expecting an expression or statement start",
             <<expression.p.currentToken.type>>, expression.p.currentToken.line))
    ELSE Stmt(expectNewline(expression.p,
                  "Expected NEWLINE after expression statement, got X"),
              [kind |-> "ExpressionStatement", expression |-> expression.node]))

RECURSIVE parseStatement(_)

\* while (this.currentTokenIs(NEWLINE)) this.nextToken()
RECURSIVE skipNewlines(_)
skipNewlines(P) ==
    IF currentTokenIs(P, "NEWLINE") THEN skipNewlines(Parser_nextToken(P)) ELSE P

\* statements with the node of stmt pushed, when it has one
Pushed(statements, stmt) ==
    IF IsNull(stmt.node) THEN statements ELSE Append(statements, stmt.node)

\* the statement loop of parseBlockStatement; returns the parser, the
\* statements and hang
RECURSIVE parseBlockStatement_loop(_, _)
parseBlockStatement_loop(P, statements) ==
    IF currentTokenIs(P, "DEDENT") \/ currentTokenIs(P, "EOF")
    THEN [p |-> P, statements |-> statements, hang |-> FALSE]
    ELSE With(skipNewlines(P), LAMBDA P1 :
         IF currentTokenIs(P1, "DEDENT") \/ currentTokenIs(P1, "EOF")
         THEN [p |-> P1, statements |-> statements, hang |-> FALSE]
         ELSE With(parseStatement(P1), LAMBDA stmt :
              IF stmt.hang \/ Cursor(stmt.p) = Cursor(P1)
              THEN [p |-> stmt.p, statements |-> Pushed(statements, stmt), hang |-> TRUE]
              ELSE parseBlockStatement_loop(stmt.p, Pushed(statements, stmt))))

\* the end of parseBlockStatement: the check for DEDENT
parseBlockStatement_close(block) ==
    IF block.hang THEN Hangs(block.p)
    ELSE IF ~currentTokenIs(block.p, "DEDENT") /\ ~currentTokenIs(block.p, "EOF")
    THEN StmtFailed(pushError(block.p, "Expected DEDENT to end block, got X",
                              <<block.p.currentToken.type>>, block.p.currentToken.line))
    ELSE Stmt(block.p, [kind |-> "BlockStatement", statements |-> block.statements])

parseBlockStatement(P) ==
    With(expectPeek(P, "NEWLINE"), LAMBDA x1 :
    IF ~x1.ok
    THEN StmtFailed(pushError(x1.p,
             "Expected NEWLINE after ':' or '->' to start block, got X",
             <<x1.p.peekToken.type>>, 0))
    ELSE With(expectPeek(x1.p, "INDENT"), LAMBDA x2 :
         IF ~x2.ok
         THEN StmtFailed(pushError(x2.p, "Expected INDENT to start block body, got X",
                                   <<x2.p.peekToken.type>>, 0))
         ELSE parseBlockStatement_close(parseBlockStatement_loop(x2.p, <<>>))))

\* parseSingleParameter from the optional default value on
parseSingleParameter_default(P, identifier, typeAnnotation) ==
    IF peekTokenIs(P, "ASSIGN")
    THEN With(parseExpression(Parser_nextToken(Parser_nextToken(P)), Precedence_LOWEST),
              LAMBDA defaultValue :
         IF IsNull(defaultValue.node)
         THEN Failed(pushError(defaultValue.p,
                  "Expected default value expression after '=' for parameter X",
                  <<identifier.name>>, 0))
         ELSE Parsed(defaultValue.p,
                     [kind |-> "Parameter", identifier |-> identifier,
                      typeAnnotation |-> typeAnnotation,
                      defaultValue |-> defaultValue.node]))
    ELSE Parsed(P, [kind |-> "Parameter", identifier |-> identifier,
                    typeAnnotation |-> typeAnnotation, defaultValue |-> Undefined])

parseSingleParameter(P) ==
    IF ~currentTokenIs(P, "IDENTIFIER")
    THEN Failed(pushError(P, "Expected parameter name (identifier), got X",
                          <<P.currentToken.type>>, 0))
    ELSE IF peekTokenIs(P, "COLON")
    THEN With(parseTypeAnnotation(Parser_nextToken(P)), LAMBDA typeAnnotation :
         IF IsNull(typeAnnotation.node) THEN Failed(typeAnnotation.p)
         ELSE parseSingleParameter_default(typeAnnotation.p, Identifier(P.currentToken),
                                           typeAnnotation.node))
    ELSE parseSingleParameter_default(P, Identifier(P.currentToken), Undefined)

\* the loop of parseParameters over the comma-separated rest
RECURSIVE parseParameters_rest(_, _, _)
parseParameters_rest(P, params, endToken) ==
    IF peekTokenIs(P, "COMMA")
    THEN With(Parser_nextToken(P), LAMBDA P1 :
         IF peekTokenIs(P1, endToken)
         THEN [p |-> Parser_nextToken(P1), list |-> params, ok |-> TRUE]
         ELSE With(parseSingleParameter(Parser_nextToken(P1)), LAMBDA param :
              IF IsNull(param.node)
              THEN [p |-> param.p, list |-> <<>>, ok |-> FALSE]
              ELSE parseParameters_rest(param.p, Append(params, param.node), endToken)))
    ELSE IF ~currentTokenIs(P, endToken)
         THEN With(expectPeek(P, endToken), LAMBDA x :
              IF ~x.ok
              THEN [p |-> pushError(x.p, "Expected ',' or 'X' after parameter, got Y",
                                    <<endToken, x.p.peekToken.type>>, 0),
                    list |-> <<>>, ok |-> FALSE]
              ELSE [p |-> x.p, list |-> params, ok |-> TRUE])
         ELSE [p |-> P, list |-> params, ok |-> TRUE]

parseParameters(P, endToken, startToken) ==
    IF peekTokenIs(P, endToken)
    THEN [p |-> Parser_nextToken(P), list |-> <<>>, ok |-> TRUE]
    ELSE With(parseSingleParameter(Parser_nextToken(P)), LAMBDA firstParam :
         IF IsNull(firstParam.node)
         THEN [p |-> firstParam.p, list |-> <<>>, ok |-> FALSE]
         ELSE parseParameters_rest(firstParam.p, <<firstParam.node>>, endToken))

\* parseFunctionDeclaration from the expected ':' on
parseFunctionDeclaration_body(P, name, parameters, returnType, isMethod, isInitializer) ==
    With(expectPeek(P, "COLON"), LAMBDA x :
    IF ~x.ok THEN StmtFailed(x.p)
    ELSE With(parseBlockStatement(
                  IF isMethod THEN [x.p EXCEPT !.isInClass = TRUE] ELSE x.p),
              LAMBDA body :
         IF body.hang THEN Hangs(body.p)
         ELSE IF IsNull(body.node)
         THEN StmtFailed(pushError([body.p EXCEPT !.isInClass = x.p.isInClass],
                  "Expected function body block after ':'",
                  <<>>, body.p.currentToken.line))
         ELSE Stmt([body.p EXCEPT !.isInClass = x.p.isInClass],
                   [kind |-> "FunctionDeclaration", name |-> name,
                    parameters |-> parameters, returnType |-> returnType,
                    body |-> body.node, isMethod |-> isMethod,
                    isInitializer |-> isInitializer])))

\* parseFunctionDeclaration from the optional return type on
parseFunctionDeclaration_returnType(P, name, parameters, isMethod, isInitializer) ==
    IF peekTokenIs(P, "ARROW")
    THEN IF isInitializer
         THEN StmtFailed(pushError(P,
                  "Initializer 'init' cannot have an explicit return type annotation '->'",
                  <<>>, P.peekToken.line))
         ELSE With(parseTypeAnnotation(Parser_nextToken(P)), LAMBDA returnType :
              IF IsNull(returnType.node) THEN StmtFailed(returnType.p)
              ELSE parseFunctionDeclaration_body(returnType.p, name, parameters,
                       returnType.node, isMethod, isInitializer))
    ELSE parseFunctionDeclaration_body(P, name, parameters, Undefined, isMethod,
                                       isInitializer)

parseFunctionDeclaration(P, isMethod, isInitializer) ==
    With(expectPeek(P, IF isInitializer THEN "INIT" ELSE "IDENTIFIER"), LAMBDA x1 :
    IF ~x1.ok THEN StmtFailed(x1.p)
    ELSE With(expectPeek(x1.p, "LEFT_PAREN"), LAMBDA x2 :
         IF ~x2.ok THEN StmtFailed(x2.p)
         ELSE With(parseParameters(x2.p, "RIGHT_PAREN", "LEFT_PAREN"), LAMBDA parameters :
              IF ~parameters.ok THEN StmtFailed(parameters.p)
              ELSE parseFunctionDeclaration_returnType(parameters.p,
                       Identifier(x1.p.currentToken), parameters.list,
                       isMethod, isInitializer))))

\* the end of parseMemberVariableDeclaration: the expected NEWLINE
parseMemberVariableDeclaration_end(P, isConstant, identifier, typeAnnotation, initializer) ==
    With(expectPeek(P, "NEWLINE"), LAMBDA x :
    Stmt(IF x.ok THEN x.p
         ELSE IF ~currentTokenIs(x.p, "EOF") /\ ~currentTokenIs(x.p, "DEDENT")
         THEN pushError(x.p, "Expected NEWLINE after member variable declaration, got X",
                        <<x.p.currentToken.type>>, x.p.currentToken.line)
         ELSE x.p,
         [kind |-> "VariableDeclaration", isConstant |-> isConstant,
          identifier |-> identifier, typeAnnotation |-> typeAnnotation,
          initializer |-> initializer]))

\* parseMemberVariableDeclaration from the optional initializer on
parseMemberVariableDeclaration_init(P, isConstant, identifier, typeAnnotation) ==
    IF peekTokenIs(P, "ASSIGN")
    THEN With(parseExpression(Parser_nextToken(Parser_nextToken(P)), Precedence_LOWEST),
              LAMBDA initializer :
         IF IsNull(initializer.node)
         THEN StmtFailed(pushError(initializer.p,
                  "Expected expression for member variable initializer",
                  <<>>, initializer.p.currentToken.line))
         ELSE parseMemberVariableDeclaration_end(initializer.p, isConstant, identifier,
                  typeAnnotation, initializer.node))
    ELSE parseMemberVariableDeclaration_end(P, isConstant, identifier, typeAnnotation,
                                            Undefined)

parseMemberVariableDeclaration(P) ==
    With(expectPeek(P, "IDENTIFIER"), LAMBDA x1 :
    IF ~x1.ok THEN StmtFailed(x1.p)
    ELSE With(expectPeek(x1.p, "COLON"), LAMBDA x2 :
         IF ~x2.ok
         THEN StmtFailed(pushError(x2.p,
                  "Expected ':' for type annotation after member variable name 'X', got Y",
                  <<x1.p.currentToken.literal, x2.p.peekToken.type>>, 0))
         ELSE With(parseTypeAnnotation(x2.p), LAMBDA typeAnnotation :
              IF IsNull(typeAnnotation.node) THEN StmtFailed(typeAnnotation.p)
              ELSE parseMemberVariableDeclaration_init(typeAnnotation.p,
                       currentTokenIs(P, "LET"), Identifier(x1.p.currentToken),
                       typeAnnotation.node))))

\* the switch of parseClassBody that parses one member
parseClassBody_member(P) ==
    CASE P.currentToken.type \in {"LET", "VAR"} -> parseMemberVariableDeclaration(P)
      [] P.currentToken.type = "FUNC" ->
             parseFunctionDeclaration(P, TRUE, peekTokenIs(P, "INIT"))
      [] OTHER ->
             StmtFailed(Parser_nextToken(pushError(P,
                 "Unexpected token in class body: X. Expected 'let', 'var', or 'func'.",
                 <<P.currentToken.type>>, P.currentToken.line)))

\* the member loop of parseClassBody; returns the parser, the members and hang
RECURSIVE parseClassBody_loop(_, _)
parseClassBody_loop(P, members) ==
    IF currentTokenIs(P, "DEDENT") \/ currentTokenIs(P, "EOF")
    THEN [p |-> P, members |-> members, hang |-> FALSE]
    ELSE With(skipNewlines(P), LAMBDA P1 :
         IF currentTokenIs(P1, "DEDENT") \/ currentTokenIs(P1, "EOF")
         THEN [p |-> P1, members |-> members, hang |-> FALSE]
         ELSE With(parseClassBody_member(P1), LAMBDA member :
              IF member.hang \/ Cursor(member.p) = Cursor(P1)
              THEN [p |-> member.p, members |-> Pushed(members, member), hang |-> TRUE]
              ELSE parseClassBody_loop(member.p, Pushed(members, member))))

\* the end of parseClassBody: the check for DEDENT
parseClassBody_close(body) ==
    IF body.hang
    THEN [p |-> body.p, members |-> body.members, ok |-> FALSE, hang |-> TRUE]
    ELSE IF ~currentTokenIs(body.p, "DEDENT") /\ ~currentTokenIs(body.p, "EOF")
    THEN [p |-> pushError(body.p, "Expected DEDENT to end class body, got X",
                          <<body.p.currentToken.type>>, body.p.currentToken.line),
          members |-> <<>>, ok |-> FALSE, hang |-> FALSE]
    ELSE [p |-> body.p, members |-> body.members, ok |-> TRUE, hang |-> FALSE]

\* returns the parser, the members, ok (FALSE for null) and hang
parseClassBody(P) ==
    With(expectPeek(P, "NEWLINE"), LAMBDA x1 :
    IF ~x1.ok
    THEN [p |-> pushError(x1.p, "Expected NEWLINE after class ':' to start body, got X",
                          <<x1.p.peekToken.type>>, 0),
          members |-> <<>>, ok |-> FALSE, hang |-> FALSE]
    ELSE With(expectPeek(x1.p, "INDENT"), LAMBDA x2 :
         IF ~x2.ok
         THEN [p |-> pushError(x2.p, "Expected INDENT to start class body, got X",
                               <<x2.p.peekToken.type>>, 0),
               members |-> <<>>, ok |-> FALSE, hang |-> FALSE]
         ELSE parseClassBody_close(parseClassBody_loop(x2.p, <<>>))))

parseClassDeclaration(P) ==
    With(expectPeek(P, "IDENTIFIER"), LAMBDA x1 :
    IF ~x1.ok THEN StmtFailed(x1.p)
    ELSE With(expectPeek(x1.p, "COLON"), LAMBDA x2 :
         IF ~x2.ok THEN StmtFailed(x2.p)
         ELSE With(parseClassBody([x2.p EXCEPT !.isInClass = TRUE]), LAMBDA bodyMembers :
              IF bodyMembers.hang THEN Hangs(bodyMembers.p)
              ELSE IF ~bodyMembers.ok
              THEN StmtFailed(pushError(
                       [bodyMembers.p EXCEPT !.isInClass = x2.p.isInClass],
                       "Expected class body block after ':'",
                       <<>>, bodyMembers.p.currentToken.line))
              ELSE Stmt([bodyMembers.p EXCEPT !.isInClass = x2.p.isInClass],
                        [kind |-> "ClassDeclaration",
                         name |-> Identifier(x1.p.currentToken),
                         members |-> bodyMembers.members]))))

\* the result of a condition ':' block that did not parse
NoBranch(P, hang) ==
    [p |-> P, ok |-> FALSE, hang |-> hang, condition |-> Null, consequence |-> Null]

\* condition ':' block, as parsed after 'if', 'elif' and 'while'; what names
\* the construct in the error messages
parseConditionAndBlock(P, what) ==
    With(parseExpression(P, Precedence_LOWEST), LAMBDA condition :
    IF IsNull(condition.node)
    THEN NoBranch(pushError(condition.p, "Expected condition expression after X",
                            <<what>>, 0), FALSE)
    ELSE With(expectPeek(condition.p, "COLON"), LAMBDA x :
         IF ~x.ok THEN NoBranch(x.p, FALSE)
         ELSE With(parseBlockStatement(x.p), LAMBDA consequence :
              IF consequence.hang THEN NoBranch(consequence.p, TRUE)
              ELSE IF IsNull(consequence.node)
              THEN NoBranch(pushError(consequence.p, "Expected block for X",
                                      <<what>>, 0), FALSE)
              ELSE [p |-> consequence.p, ok |-> TRUE, hang |-> FALSE,
                    condition |-> condition.node,
                    consequence |-> consequence.node])))

\* the end of parseIfStatement: the optional 'else' branch
parseIfStatement_else(P, condition, consequence, alternatives) ==
    IF currentTokenIs(P, "ELSE")
    THEN With(expectPeek(Parser_nextToken(P), "COLON"), LAMBDA x :
         IF ~x.ok THEN StmtFailed(x.p)
         ELSE With(parseBlockStatement(x.p), LAMBDA elseBlock :
              IF elseBlock.hang THEN Hangs(elseBlock.p)
              ELSE IF IsNull(elseBlock.node)
              THEN StmtFailed(pushError(elseBlock.p,
                       "Expected block for X", <<"else">>, 0))
              ELSE Stmt(elseBlock.p,
                        [kind |-> "IfStatement", condition |-> condition,
                         consequence |-> consequence,
                         alternatives |-> alternatives,
                         alternative |-> elseBlock.node])))
    ELSE Stmt(P, [kind |-> "IfStatement", condition |-> condition,
                  consequence |-> consequence, alternatives |-> alternatives,
                  alternative |-> Undefined])

\* the loop of parseIfStatement over the 'elif' branches
RECURSIVE parseIfStatement_elif(_, _, _, _)
parseIfStatement_elif(P, condition, consequence, alternatives) ==
    IF currentTokenIs(P, "ELIF")
    THEN With(parseConditionAndBlock(Parser_nextToken(P), "elif"), LAMBDA elif :
         IF elif.hang THEN Hangs(elif.p)
         ELSE IF ~elif.ok THEN StmtFailed(elif.p)
         ELSE parseIfStatement_elif(Parser_nextToken(elif.p), condition, consequence,
                  Append(alternatives, [condition |-> elif.condition,
                                        consequence |-> elif.consequence])))
    ELSE parseIfStatement_else(P, condition, consequence, alternatives)

parseIfStatement(P) ==
    With(parseConditionAndBlock(Parser_nextToken(P), "if"), LAMBDA if :
    IF if.hang THEN Hangs(if.p)
    ELSE IF ~if.ok THEN StmtFailed(if.p)
    ELSE parseIfStatement_elif(Parser_nextToken(if.p), if.condition,
                               if.consequence, <<>>))

parseWhileStatement(P) ==
    With(parseConditionAndBlock(Parser_nextToken(P), "while"), LAMBDA while :
    IF while.hang THEN Hangs(while.p)
    ELSE IF ~while.ok THEN StmtFailed(while.p)
    ELSE Stmt(while.p, [kind |-> "WhileStatement", condition |-> while.condition,
                        body |-> while.consequence]))

\* parseForStatement from the iterable expression on
parseForStatement_body(P, variable) ==
    With(parseExpression(P, Precedence_LOWEST), LAMBDA iterable :
    IF IsNull(iterable.node)
    THEN StmtFailed(pushError(iterable.p,
             "Expected iterable expression after 'in' in 'for' loop", <<>>, 0))
    ELSE With(expectPeek(iterable.p, "COLON"), LAMBDA x3 :
         IF ~x3.ok THEN StmtFailed(x3.p)
         ELSE With(parseBlockStatement(x3.p), LAMBDA body :
              IF body.hang THEN Hangs(body.p)
              ELSE IF IsNull(body.node)
              THEN StmtFailed(pushError(body.p,
                       "Expected block for 'for' loop body", <<>>, 0))
              ELSE Stmt(body.p, [kind |-> "ForStatement", variable |-> variable,
                                 iterable |-> iterable.node,
                                 body |-> body.node]))))

parseForStatement(P) ==
    With(expectPeek(P, "IDENTIFIER"), LAMBDA x1 :
    IF ~x1.ok
    THEN StmtFailed(pushError(x1.p, "Expected identifier after 'for', got X",
                              <<x1.p.peekToken.type>>, 0))
    ELSE With(expectPeek(x1.p, "IN"), LAMBDA x2 :
         IF ~x2.ok
         THEN StmtFailed(pushError(x2.p,
                  "Expected 'in' keyword after loop variable in 'for' loop, got X",
                  <<x2.p.peekToken.type>>, 0))
         ELSE parseForStatement_body(Parser_nextToken(x2.p),
                                     Identifier(x1.p.currentToken))))

parseStatement(P) ==
    CASE P.currentToken.type \in {"LET", "VAR"} -> parseVariableDeclaration(P)
      [] P.currentToken.type = "RETURN" -> parseReturnStatement(P)
      [] P.currentToken.type = "FUNC" ->
             IF peekTokenIs(P, "INIT")
             THEN IF ~P.isInClass
                  THEN StmtFailed(pushError(P,
                           "Parser Error: 'init' found outside of class definition",
                           <<>>, P.currentToken.line))
                  ELSE parseFunctionDeclaration(P, TRUE, TRUE)
             ELSE parseFunctionDeclaration(P, P.isInClass, FALSE)
      [] P.currentToken.type = "CLASS" -> parseClassDeclaration(P)
      [] P.currentToken.type = "IF" -> parseIfStatement(P)
      [] P.currentToken.type = "WHILE" -> parseWhileStatement(P)
      [] P.currentToken.type = "FOR" -> parseForStatement(P)
      [] P.currentToken.type \in {"NEWLINE", "DEDENT"} -> StmtFailed(Parser_nextToken(P))
      [] OTHER -> parseExpressionStatement(P)

(***************************************************************************)
(* Source texts.                                                           *)
(***************************************************************************)
\* all sequences over S of length at most n
BoundedSeq(S, n) == UNION {[1..k -> S] : k \in 0..n}

\* characters of line structure, of operators and of the unmatched rest
StructureChars == {"a", " ", "\n", "#", "\t", "\r"}
OperatorChars == {"a", "!", "=", "@", "\n"}

ShortInputs ==
    BoundedSeq(StructureChars, MaxLen) \cup BoundedSeq(OperatorChars, MaxLen)

\* n spaces
RECURSIVE Spaces(_)
Spaces(n) == IF n = 0 THEN <<>> ELSE <<" ">> \o Spaces(n - 1)

\* the indentations (in spaces) of the lines of a built source text
IndentWidths == {0, 1, 2, 4}

\* a line: indentation, then code or a comment; or a blank line
LineKinds ==
    {Spaces(n) \o body : n \in IndentWidths, body \in {<<"a">>, <<"#">>}} \cup {<<>>}

RECURSIVE JoinLines(_)
JoinLines(lines) ==
    IF lines = <<>> THEN <<>> ELSE Head(lines) \o <<"\n">> \o JoinLines(Tail(lines))

\* up to MaxLines lines, each ended by a line feed
LineInputs == {JoinLines(lines) : lines \in BoundedSeq(LineKinds, MaxLines)}

\* the characters of the two-character operators, and the two examples
PairChars == {"a", "<", ">", "-", "=", "!"}

Example_arrow == <<"a", "-", ">", "b">>
Example_lessEqual == <<"a", "<", "=", "b">>

PairInputs == BoundedSeq(PairChars, MaxLen) \cup {Example_arrow, Example_lessEqual}

\* an opening quote and up to MaxStringBody characters behind it
StringChars == {"\"", "\\", "a", "\n"}

StringInputs == {<<"\"">> \o body : body \in BoundedSeq(StringChars, MaxStringBody)}

Inputs == ShortInputs \cup LineInputs \cup PairInputs \cup StringInputs

(***************************************************************************)
(* The lexer and its caller.                                               *)
(***************************************************************************)
Init ==
    /\ \E input \in Inputs : lexer = Lexer(input)
    /\ returned = <<>>
    /\ lpc \in {"tokenize", "pull"}
    /\ parser = Undefined
    /\ program = Undefined
    /\ ppc = "idle"
    /\ psteps = 0
    /\ scan = <<>>

\* the token pushed last was EOF: tokenize() breaks out of its loop
LastIsEof(toks) == IF toks = <<>> THEN FALSE ELSE toks[Len(toks)].type = "EOF"

\* one iteration of the loop of tokenize()
Tokenize ==
    /\ lpc = "tokenize"
    /\ ~isAtEnd(lexer)
    /\ ~LastIsEof(lexer.tokens)
    /\ LET r == nextToken(lexer)
       IN  /\ lexer' = [r.lexer EXCEPT !.tokens = Append(@, r.token)]
           /\ returned' = Append(returned, r.token)
    /\ psteps' = psteps + 1
    /\ UNCHANGED <<lpc, parser, program, ppc, scan>>

\* tokenize() leaves its loop and returns this.tokens
TokenizeReturn ==
    /\ lpc = "tokenize"
    /\ IF isAtEnd(lexer) THEN TRUE ELSE LastIsEof(lexer.tokens)
    /\ lpc' = "returned"
    /\ psteps' = psteps + 1
    /\ UNCHANGED <<lexer, returned, parser, program, ppc, scan>>

EofCount(toks) == Cardinality({i \in 1..Len(toks) : toks[i].type = "EOF"})

\* a caller (the parser) pulls one token with nextToken()
Pull ==
    /\ lpc = "pull"
    /\ EofCount(returned) <= MaxEofCalls
    /\ LET r == nextToken(lexer)
       IN  /\ lexer' = r.lexer
           /\ returned' = Append(returned, r.token)
    /\ psteps' = psteps + 1
    /\ UNCHANGED <<lpc, parser, program, ppc, scan>>

Next == Tokenize \/ TokenizeReturn \/ Pull

Spec == Init /\ [][Next]_vars

\* the loop of tokenize() or of the caller that pulls can take a step: Next
\* is enabled
Scanning ==
    CASE lpc = "tokenize" -> TRUE
      [] lpc = "pull" -> EofCount(returned) <= MaxEofCalls
      [] OTHER -> FALSE

\* a step of the loop, seen on the step counter alone
Scan == Scanning /\ psteps' = psteps + 1

\* tokenize() and the caller that pulls are loops that run on.  Every step
\* of Next is a Scan and Scan is enabled exactly when Next is, so this is
\* weak fairness of Next.
SpecFair == Init /\ [][Next]_vars /\ WF_psteps(Scan)

(***************************************************************************)
(* The parser and its caller: new Parser(new Lexer(source)).parseProgram() *)
(***************************************************************************)
\* lines of simple statements, well-formed and malformed, a blank line and
\* the two lines of an if statement
Line_a == <<"a">>
Line_let == <<"l", "e", "t", " ", "b", " ", "=", " ", "1">>
Line_return == <<"r", "e", "t", "u", "r", "n", " ", "c">>
Line_paren == <<")">>
Line_ab == <<"a", " ", "b">>
Line_letNoName == <<"l", "e", "t", " ", "=", " ", "1">>
Line_if == <<"i", "f", " ", "a", ":">>
Line_body == <<" ", " ", " ", " ", "b">>

StatementLines ==
    {Line_a, Line_let, Line_return, Line_paren, Line_ab, Line_letNoName, Line_if,
     Line_body, <<>>}

\* up to MaxStmtLines lines, the last one with or without its line feed
Sources ==
    LET texts == {JoinLines(lines) : lines \in BoundedSeq(StatementLines, MaxStmtLines)}
    IN  texts \cup {SubSeq(t, 1, Len(t) - 1) : t \in texts \ {<<>>}}

InitParser ==
    /\ \E source \in Sources : lexer = Lexer(source)
    /\ returned = <<>>
    /\ lpc = "parser"
    /\ parser = Undefined
    /\ program = Undefined
    /\ ppc = "new"
    /\ psteps = 0
    /\ scan = [L \in LexerStates(lexer, MaxParserEofCalls) |-> nextToken(L)]

\* new Parser(lexer)
Construct ==
    /\ ppc = "new"
    /\ parser' = Parser(lexer)
    /\ lexer' = parser'.lexer
    /\ ppc' = "constructed"
    /\ psteps' = psteps + 1
    /\ UNCHANGED <<returned, lpc, program, scan>>

\* the first loop of parseProgram: skip leading newlines/dedents
RECURSIVE parseProgram_skipLeading(_)
parseProgram_skipLeading(P) ==
    IF currentTokenIs(P, "NEWLINE") \/ currentTokenIs(P, "DEDENT")
    THEN parseProgram_skipLeading(Parser_nextToken(P))
    ELSE P

\* the inner loop of parseProgram: skip trailing newlines/dedents
RECURSIVE parseProgram_skipTrailing(_)
parseProgram_skipTrailing(P) ==
    IF currentTokenIs(P, "NEWLINE") \/ currentTokenIs(P, "DEDENT")
    THEN IF currentTokenIs(P, "DEDENT") /\ peekTokenIs(P, "EOF") THEN P
         ELSE LET P1 == Parser_nextToken(P)
              IN  IF currentTokenIs(P1, "EOF") THEN P1
                  ELSE parseProgram_skipTrailing(P1)
    ELSE P

\* parseProgram() is called: the Program node and the first loop
ParseProgram_enter ==
    /\ ppc = "constructed"
    /\ program' = [kind |-> "Program", statements |-> <<>>]
    /\ parser' = parseProgram_skipLeading(parser)
    /\ lexer' = parser'.lexer
    /\ ppc' = "loop"
    /\ psteps' = psteps + 1
    /\ UNCHANGED <<returned, lpc, scan>>

\* a run that returns pushes at most one statement per character of the
\* source; the loop is followed until it has pushed one more than that
StatementsCap == Len(lexer.input)

\* one iteration of the main loop of parseProgram; when parseStatement never
\* returns the call stays inside it (ppc = "hang")
ParseProgram_iterate ==
    /\ ppc = "loop"
    /\ ~currentTokenIs(parser, "EOF")
    /\ Len(program.statements) <= StatementsCap
    /\ \E stmt \in {parseStatement(parser)} :
           IF stmt.hang
           THEN /\ parser' = stmt.p
                /\ program' = program
                /\ ppc' = "hang"
           ELSE /\ parser' = parseProgram_skipTrailing(
                                 IF IsNull(stmt.node) THEN Parser_nextToken(stmt.p)
                                 ELSE stmt.p)
                /\ program' = IF IsNull(stmt.node) THEN program
                              ELSE [program EXCEPT !.statements = Append(@, stmt.node)]
                /\ ppc' = "loop"
    /\ lexer' = parser'.lexer
    /\ psteps' = psteps + 1
    /\ UNCHANGED <<returned, lpc, scan>>

\* the main loop ends at EOF and parseProgram returns the program
ParseProgram_return ==
    /\ ppc = "loop"
    /\ currentTokenIs(parser, "EOF")
    /\ ppc' = "done"
    /\ psteps' = psteps + 1
    /\ UNCHANGED <<lexer, returned, lpc, parser, program, scan>>

NextParser ==
    Construct \/ ParseProgram_enter \/ ParseProgram_iterate \/ ParseProgram_return

\* the call can take a step: NextParser is enabled
Running ==
    CASE ppc \in {"new", "constructed"} -> TRUE
      [] ppc = "loop" ->
             IF currentTokenIs(parser, "EOF") THEN TRUE
             ELSE Len(program.statements) <= StatementsCap
      [] OTHER -> FALSE

\* a step of the call, seen on the step counter alone
Step == Running /\ psteps' = psteps + 1

\* the call is one synchronous run: it keeps taking steps while it can.
\* Every step of NextParser is a Step and Step is enabled exactly when
\* NextParser is, so this is weak fairness of NextParser.
SpecParser == InitParser /\ [][NextParser]_vars /\ WF_psteps(Step)

\* the table the parser reads is nextToken() itself, on every state the
\* parser's lexer is ever in
ScanIsNextToken ==
    (parser # Undefined) =>
        /\ parser.lexer \in DOMAIN scan
        /\ \A L \in DOMAIN scan : scan[L] = nextToken(L)

(***************************************************************************)
(* The token window: new Parser(lexer), then the calls the parse functions *)
(* make on the window, nextToken() and expectPeek(type), in any order.     *)
(* program holds what the last call returned.                              *)
(***************************************************************************)
\* the token types expectPeek is called with
ExpectedTypes == {"IDENTIFIER", "NEWLINE", "INDENT"}

InitWindow ==
    /\ \E source \in ShortInputs : lexer = Lexer(source)
    /\ returned = <<>>
    /\ lpc = "parser"
    /\ parser = Undefined
    /\ program = Undefined
    /\ ppc = "new"
    /\ psteps = 0
    /\ scan = [L \in LexerStates(lexer, MaxParserEofCalls) |-> nextToken(L)]

\* the parse functions stop advancing at EOF, and stop after the errors
\* followed here
WindowOpen ==
    /\ ppc \in {"constructed", "nextToken", "expectPeek"}
    /\ ~currentTokenIs(parser, "EOF")
    /\ Len(parser.errors) < MaxWindowErrors

\* this.nextToken()
Window_nextToken ==
    /\ WindowOpen
    /\ parser' = Parser_nextToken(parser)
    /\ program' = Undefined
    /\ lexer' = parser'.lexer
    /\ ppc' = "nextToken"
    /\ psteps' = psteps + 1
    /\ UNCHANGED <<returned, lpc, scan>>

\* this.expectPeek(type)
Window_expectPeek ==
    /\ WindowOpen
    /\ \E type \in ExpectedTypes :
       \E x \in {expectPeek(parser, type)} :
           /\ parser' = x.p
           /\ program' = [kind |-> "expectPeek", type |-> type, value |-> x.ok]
    /\ lexer' = parser'.lexer
    /\ ppc' = "expectPeek"
    /\ psteps' = psteps + 1
    /\ UNCHANGED <<returned, lpc, scan>>

NextWindow == Construct \/ Window_nextToken \/ Window_expectPeek

SpecWindow == InitWindow /\ [][NextWindow]_vars

(***************************************************************************)
(* Vocabulary of the properties.                                           *)
(***************************************************************************)
Types(toks) == [i \in 1..Len(toks) |-> toks[i].type]

CountType(toks, type) == Cardinality({i \in 1..Len(toks) : toks[i].type = type})

CountChar(input, ch) == Cardinality({i \in 1..Len(input) : input[i] = ch})

Range(seq) == {seq[i] : i \in 1..Len(seq)}

\* n tokens of type `type` followed by the types of `rest`
Repeat(n, type, rest) == [i \in 1..(n + Len(rest)) |-> IF i <= n THEN type ELSE rest[i - n]]

\* this step is one call of nextToken(); Result is the token it returned
Called == Len(returned') = Len(returned) + 1

Result == returned'[Len(returned')]

\* the tokens the call enqueued behind the pending ones, the returned one included
Enqueued ==
    SubSeq(<<Result>> \o lexer'.pendingTokens,
           Len(lexer.pendingTokens) + 1, Len(lexer'.pendingTokens) + 1)

\* the index of the first EOF of a token list, 0 when it has none
FirstEof(toks) ==
    IF \E i \in 1..Len(toks) : toks[i].type = "EOF"
    THEN CHOOSE i \in 1..Len(toks) :
             toks[i].type = "EOF" /\ \A j \in 1..(i - 1) : toks[j].type # "EOF"
    ELSE 0

\* an INDENT, DEDENT or 'Invalid indentation' token produced for a line
IsLineStructural(tok) ==
    \/ tok.type = "INDENT"
    \/ tok.type = "DEDENT" /\ tok.column = 0
    \/ tok.type = "ILLEGAL" /\ tok.literal = InvalidIndentation

\* the lines of a text, without their line feeds
RECURSIVE SplitLines(_, _)
SplitLines(input, line) ==
    IF input = <<>> THEN <<line>>
    ELSE IF Head(input) = "\n" THEN <<line>> \o SplitLines(Tail(input), <<>>)
    ELSE SplitLines(Tail(input), Append(line, Head(input)))

\* the number of leading spaces of a line
RECURSIVE LeadingSpaces(_)
LeadingSpaces(line) ==
    IF line # <<>> /\ Head(line) = " " THEN 1 + LeadingSpaces(Tail(line)) ELSE 0

\* a line that carries code: not blank, not a comment alone
IsCodeLine(line) ==
    LET n == LeadingSpaces(line)
    IN  n < Len(line) /\ line[n + 1] \notin {"\t", "\r", "#"}

\* only multiples of 4 spaces, each code line at most one level deeper than
\* the code line before it
FourSpaceIndented(input) ==
    LET lines == SplitLines(input, <<>>)
        code == {i \in 1..Len(lines) : IsCodeLine(lines[i])}
        level(i) == LeadingSpaces(lines[i]) \div 4
        before(i) == {j \in code : j < i}
        previous(i) == CHOOSE j \in before(i) : \A m \in before(i) : m <= j
    IN  /\ \A i \in 1..Len(lines) :
              /\ LeadingSpaces(lines[i]) % 4 = 0
              /\ "\t" \notin Range(lines[i]) /\ "\r" \notin Range(lines[i])
        /\ \A i \in code :
              level(i) <= (IF before(i) = {} THEN 0 ELSE level(previous(i))) + 1

\* the width of the leading spaces and tabs of the text from position
\* `from` (0-based), and how many characters they are
RECURSIVE LeadingWidth(_, _)
LeadingWidth(input, from) ==
    IF from < Len(input) /\ input[from + 1] \in {" ", "\t"}
    THEN LET rest == LeadingWidth(input, from + 1)
         IN  [width |-> rest.width + (IF input[from + 1] = " " THEN 1 ELSE 4),
              chars |-> rest.chars + 1]
    ELSE [width |-> 0, chars |-> 0]

CharAt(input, from) == IF from < Len(input) THEN input[from + 1] ELSE ""

\* the lines of a source text, with or without a final line feed
SourceLines(input) ==
    LET lines == SplitLines(input, <<>>)
    IN  IF lines[Len(lines)] = <<>> THEN SubSeq(lines, 1, Len(lines) - 1) ELSE lines

\* the well-formed simple statements of the source texts, and their nodes
WellFormedLines == {Line_a, Line_let, Line_return}

NodeOf(line) ==
    CASE line = Line_a ->
             [kind |-> "ExpressionStatement",
              expression |-> [kind |-> "Identifier", name |-> <<"a">>]]
      [] line = Line_let ->
             [kind |-> "VariableDeclaration", isConstant |-> TRUE,
              identifier |-> [kind |-> "Identifier", name |-> <<"b">>],
              typeAnnotation |-> Undefined,
              initializer |-> [kind |-> "IntegerLiteral", value |-> 1]]
      [] line = Line_return ->
             [kind |-> "ReturnStatement",
              returnValue |-> [kind |-> "Identifier", name |-> <<"c">>]]

\* the malformed statement lines of the source texts
MalformedLines == {Line_paren, Line_ab, Line_letNoName}

\* well-formed statements, one per line, and exactly one malformed line
\* with a well-formed line before it and one after it
OneMalformedBetween(lines) ==
    \E m \in 2..(Len(lines) - 1) :
        /\ lines[m] \in MalformedLines
        /\ \A i \in (1..Len(lines)) \ {m} : lines[i] \in WellFormedLines

\* sub occurs in seq, in order, not necessarily contiguous
RECURSIVE IsSubsequence(_, _)
IsSubsequence(sub, seq) ==
    IF sub = <<>> THEN TRUE
    ELSE IF seq = <<>> THEN FALSE
    ELSE IF Head(sub) = Head(seq) THEN IsSubsequence(Tail(sub), Tail(seq))
    ELSE IsSubsequence(sub, Tail(seq))

\* the nodes of the well-formed lines, in source order
WellFormedNodes(lines) ==
    LET wf == SelectSeq(lines, LAMBDA l : l \in WellFormedLines)
    IN  [i \in 1..Len(wf) |-> NodeOf(wf[i])]

(***************************************************************************)
(* Calls of the parse functions.  The parser is constructed over a source  *)
(* text whose first token is a line feed, the token the constructor        *)
(* discards, so that the window opens on the text after it; then one parse *)
(* function is called from a cursor the code calls it from.  ppc names the *)
(* function called and program holds what it returned, Hanging when the    *)
(* call does not return.                                                   *)
(***************************************************************************)
\* what stands for the result of a call that never returns
Hanging == [kind |-> "hang"]

\* the text after the discarded first token
Body(input) == Tail(input)

\* a line of a block, indented by four spaces
Indented(line) == Spaces(4) \o line

\* the lines of a block, each indented and ended by a line feed
IndentedLines(lines) == JoinLines([i \in 1..Len(lines) |-> Indented(lines[i])])

\* ':' and a block of well-formed simple statements, followed by the end of
\* the text or by a line at the outer level
BlockText(lines, rest) == <<":", "\n">> \o IndentedLines(lines) \o rest

BlockLines == BoundedSeq(WellFormedLines, MaxBlockLines) \ {<<>>}

BlockRests == {<<>>, JoinLines(<<Line_a>>)}

BlockTexts == {BlockText(lines, rest) : lines \in BlockLines, rest \in BlockRests}

\* 'if a:' and its block, 'elif <name>:' and its block for each name of
\* elifs, 'else:' and its block when hasElse; every block is the statement b
IfBranch(head) == head \o <<":", "\n">> \o IndentedLines(<<<<"b">>>>)

RECURSIVE ElifBranches(_)
ElifBranches(elifs) ==
    IF elifs = <<>> THEN <<>>
    ELSE IfBranch(<<"e", "l", "i", "f", " ", Head(elifs)>>) \o ElifBranches(Tail(elifs))

IfText(elifs, hasElse, rest) ==
    IfBranch(<<"i", "f", " ", "a">>) \o ElifBranches(elifs)
        \o (IF hasElse THEN IfBranch(<<"e", "l", "s", "e">>) ELSE <<>>) \o rest

\* the conditions of the elif branches of a chain
ElifNames == BoundedSeq({"c", "d"}, MaxElifs)

IfTexts ==
    {IfText(elifs, hasElse, rest) :
        elifs \in ElifNames, hasElse \in BOOLEAN, rest \in BlockRests}

\* the binary operators, as written
BinaryOperators ==
    {<<"+">>, <<"-">>, <<"*">>, <<"/">>, <<"=", "=">>, <<"!", "=">>, <<"<">>, <<">">>,
     <<"<", "=">>, <<">", "=">>, <<"a", "n", "d">>, <<"o", "r">>}

\* x op1 y op2 z
BinaryText(x, op1, y, op2, z) == x \o <<" ">> \o op1 \o <<" ">> \o y \o <<" ">> \o op2 \o <<" ">> \o z

BinaryTexts ==
    {BinaryText(<<"a">>, op1, <<"b">>, op2, <<"c">>) :
        op1 \in BinaryOperators, op2 \in BinaryOperators}
    \cup {BinaryText(<<"1">>, <<"+">>, <<"2">>, <<"*">>, <<"3">>)}

\* the texts of elems separated by ', ', with a trailing ',' when trailing
RECURSIVE Separated(_, _)
Separated(elems, trailing) ==
    IF elems = <<>> THEN <<>>
    ELSE IF Len(elems) = 1 THEN Head(elems) \o (IF trailing THEN <<",">> ELSE <<>>)
    ELSE Head(elems) \o <<",", " ">> \o Separated(Tail(elems), trailing)

\* a callee and its parenthesised arguments
CalleeNames == {<<"f">>, <<"F">>, <<"a", "B">>, <<"A", "b">>, <<"_", "F">>, <<"Z">>}

CallText(name, args) == name \o <<"(">> \o Separated(args, FALSE) \o <<")">>

ArgumentLists == BoundedSeq({<<"1">>, <<"a">>}, MaxElements)

CalleeTexts == {CallText(name, args) : name \in CalleeNames, args \in ArgumentLists}

\* a call with one labelled argument, as in Counter(start: 10)
LabelledText(name) == name \o <<"(", "s", ":", " ", "1", "0", ")">>

LabelledTexts == {LabelledText(name) : name \in CalleeNames}

\* a bracketed list and a call of f, with or without a trailing comma
ElementLists ==
    BoundedSeq({<<"1">>, <<"a">>, <<"[", "1", "]">>, <<"g", "(", "1", ")">>},
               MaxElements) \ {<<>>}

ListText(elems, trailing) == <<"[">> \o Separated(elems, trailing) \o <<"]">>

ArgumentsText(elems, trailing) == <<"f", "(">> \o Separated(elems, trailing) \o <<")">>

ListTexts ==
    {ListText(elems, trailing) : elems \in ElementLists, trailing \in BOOLEAN}
    \cup {ArgumentsText(elems, trailing) : elems \in ElementLists, trailing \in BOOLEAN}

\* 'self' and 'self.x' at the top level, as an expression and as a statement
SelfTexts ==
    { <<"s", "e", "l", "f">>,
      <<"s", "e", "l", "f", ".", "x">>,
      <<"s", "e", "l", "f", "\n">>,
      <<"s", "e", "l", "f", ".", "x", "\n">> }

\* 'func init' at the top level
InitTexts ==
    { <<"f", "u", "n", "c", " ", "i", "n", "i", "t">>,
      <<"f", "u", "n", "c", " ", "i", "n", "i", "t", "(", ")", ":">>,
      <<"f", "u", "n", "c", " ", "i", "n", "i", "t", "(", ")", "\n">>,
      <<"f", "u", "n", "c", " ", "i", "n", "i", "t", "(", ")", ":", "\n", " ", " ", " ", " ", "a", "\n">> }

\* a class whose member is initialized from 'self'
ClassSelfTexts ==
    { <<"c", "l", "a", "s", "s", " ", "C", ":", "\n", " ", " ", " ", " ", "l", "e", "t", " ", "x", ":", " ", "T", " ", "=", " ", "s", "e", "l", "f", "\n">>,
      <<"c", "l", "a", "s", "s", " ", "C", ":", "\n", " ", " ", " ", " ", "v", "a", "r", " ", "x", ":", " ", "T", " ", "=", " ", "s", "e", "l", "f", ".", "y", "\n">> }

\* assignments to an identifier, a member and an element
AssignmentTexts ==
    { <<"c", " ", "=", " ", "c", " ", "+", " ", "1", "\n">>,
      <<"c", " ", "=", " ", "1", "\n">>,
      <<"a", ".", "b", " ", "=", " ", "1", "\n">>,
      <<"a", "[", "0", "]", " ", "=", " ", "1", "\n">> }

\* a dictionary literal of key: value entries, with or without a trailing comma
DictEntries == {<<k, v>> : k \in {<<"a">>, <<"1">>}, v \in {<<"1">>, <<"a">>}}

DictItems == BoundedSeq(DictEntries, MaxElements) \ {<<>>}

DictText(items, trailing) ==
    <<"{">> \o Separated([i \in 1..Len(items) |->
                              items[i][1] \o <<":", " ">> \o items[i][2]], trailing)
          \o <<"}">>

DictTexts == {DictText(items, trailing) : items \in DictItems, trailing \in BOOLEAN}

\* a bare 'return', its NEWLINE and what follows
ReturnTexts ==
    { <<"r", "e", "t", "u", "r", "n", "\n">>,
      <<"r", "e", "t", "u", "r", "n", "\n", "a", "\n">>,
      <<"r", "e", "t", "u", "r", "n", "\n", "r", "e", "t", "u", "r", "n", "\n">>,
      <<"r", "e", "t", "u", "r", "n", "\n", "1", " ", "+", " ", "2", "\n">> }

\* simple statements with their NEWLINE, at end of input and before a token
UnterminatedTexts ==
    { <<"a">>,
      <<"a", " ", "b", "\n">>,
      <<"a", "\n">>,
      <<"l", "e", "t", " ", "b", " ", "=", " ", "1">>,
      <<"l", "e", "t", " ", "b", " ", "=", " ", "1", " ", "c", "\n">>,
      <<"l", "e", "t", " ", "b", " ", "=", " ", "1", "\n">>,
      <<"r", "e", "t", "u", "r", "n", " ", "c">>,
      <<"r", "e", "t", "u", "r", "n", " ", "c", " ", "d", "\n">> }

\* 'class C:' and its typed member variables, with and without initializer
Member_let == <<"l", "e", "t", " ", "x", ":", " ", "T">>
Member_var == <<"v", "a", "r", " ", "y", ":", " ", "T", " ", "=", " ", "1">>

MemberLines == BoundedSeq({Member_let, Member_var}, MaxBlockLines) \ {<<>>}

ClassText(members) == <<"c", "l", "a", "s", "s", " ", "C", ":", "\n">> \o IndentedLines(members)

ClassTexts == {ClassText(members) : members \in MemberLines}

CallTexts ==
    BlockTexts \cup IfTexts \cup BinaryTexts \cup CalleeTexts \cup LabelledTexts
        \cup ListTexts \cup SelfTexts \cup InitTexts \cup ClassSelfTexts
        \cup AssignmentTexts
        \cup DictTexts
        \cup ReturnTexts
        \cup UnterminatedTexts
        \cup ClassTexts

InitCalls ==
    /\ \E text \in CallTexts : lexer = Lexer(<<"\n">> \o text)
    /\ returned = <<>>
    /\ lpc = "parser"
    /\ parser = Undefined
    /\ program = Undefined
    /\ ppc = "new"
    /\ psteps = 0
    /\ scan = [L \in LexerStates(lexer, MaxParserEofCalls) |-> nextToken(L)]

\* the call named name ends with result r (parser, node, hang)
CallReturns(name, r) ==
    /\ parser' = r.p
    /\ program' = IF r.hang THEN Hanging ELSE r.node
    /\ lexer' = parser'.lexer
    /\ ppc' = name
    /\ psteps' = psteps + 1
    /\ UNCHANGED <<returned, lpc, scan>>

\* this.parseBlockStatement(), called with the cursor on ':'
Call_parseBlockStatement ==
    /\ ppc = "constructed"
    /\ currentTokenIs(parser, "COLON")
    /\ \E r \in {parseBlockStatement(parser)} : CallReturns("parseBlockStatement", r)

\* this.parseStatement()
Call_parseStatement ==
    /\ ppc = "constructed"
    /\ \E r \in {parseStatement(parser)} : CallReturns("parseStatement", r)

\* this.parseExpression(Precedence.LOWEST)
Call_parseExpression ==
    /\ ppc = "constructed"
    /\ \E r \in {parseExpression(parser, Precedence_LOWEST)} :
           CallReturns("parseExpression", Stmt(r.p, r.node))

\* this.parseIfStatement(), called with the cursor on 'if'
Call_parseIfStatement ==
    /\ ppc = "constructed"
    /\ currentTokenIs(parser, "IF")
    /\ \E r \in {parseIfStatement(parser)} : CallReturns("parseIfStatement", r)

NextCalls ==
    \/ Construct
    \/ Call_parseBlockStatement
    \/ Call_parseIfStatement
    \/ Call_parseStatement
    \/ Call_parseExpression

SpecCalls == InitCalls /\ [][NextCalls]_vars

(***************************************************************************)
(* The two statement loops, one iteration at a time: parseProgram() and    *)
(* parseBlockStatement() called on a new Parser.                           *)
(***************************************************************************)
AtBlockEnd(P) == currentTokenIs(P, "DEDENT") \/ currentTokenIs(P, "EOF")

\* parseBlockStatement() is called: NEWLINE and INDENT are expected
ParseBlock_enter ==
    /\ ppc = "constructed"
    /\ currentTokenIs(parser, "COLON")
    /\ \E x1 \in {expectPeek(parser, "NEWLINE")} :
           IF ~x1.ok
           THEN /\ parser' = pushError(x1.p,
                        "Expected NEWLINE after ':' or '->' to start block, got X",
                        <<x1.p.peekToken.type>>, 0)
                /\ program' = Null
                /\ ppc' = "parseBlockStatement"
           ELSE \E x2 \in {expectPeek(x1.p, "INDENT")} :
                IF ~x2.ok
                THEN /\ parser' = pushError(x2.p,
                             "Expected INDENT to start block body, got X",
                             <<x2.p.peekToken.type>>, 0)
                     /\ program' = Null
                     /\ ppc' = "parseBlockStatement"
                ELSE /\ parser' = x2.p
                     /\ program' = [kind |-> "BlockStatement", statements |-> <<>>]
                     /\ ppc' = "block"
    /\ lexer' = parser'.lexer
    /\ psteps' = psteps + 1
    /\ UNCHANGED <<returned, lpc, scan>>

\* the loop condition of parseBlockStatement and what follows it: one
\* iteration of the statement loop (a `break` leaves the cursor on DEDENT or
\* EOF, where the condition ends the loop), or the end of the call
ParseBlock_loop ==
    /\ ppc = "block"
    /\ Len(parser.errors) < MaxLoopErrors
    /\ IF AtBlockEnd(parser)
       THEN \E r \in {parseBlockStatement_close(
                          [p |-> parser, statements |-> program.statements,
                           hang |-> FALSE])} :
                /\ parser' = r.p
                /\ program' = r.node
                /\ ppc' = "parseBlockStatement"
       ELSE \E P1 \in {skipNewlines(parser)} :
                IF AtBlockEnd(P1)
                THEN /\ parser' = P1
                     /\ program' = program
                     /\ ppc' = "block"
                ELSE \E stmt \in {parseStatement(P1)} :
                     /\ parser' = stmt.p
                     /\ program' = IF stmt.hang THEN program
                                   ELSE [program EXCEPT !.statements = Pushed(@, stmt)]
                     /\ ppc' = IF stmt.hang THEN "hang" ELSE "block"
    /\ lexer' = parser'.lexer
    /\ psteps' = psteps + 1
    /\ UNCHANGED <<returned, lpc, scan>>

NextLoops ==
    \/ Construct
    \/ ParseProgram_enter
    \/ ParseProgram_iterate
    \/ ParseProgram_return
    \/ ParseBlock_enter
    \/ ParseBlock_loop

SpecLoops == InitCalls /\ [][NextLoops]_vars

C2_ErrorResilience ==
    (ppc = "done" /\ OneMalformedBetween(SourceLines(lexer.input))) =>
        /\ IsSubsequence(WellFormedNodes(SourceLines(lexer.input)), program.statements)
        /\ \E i \in 1..Len(parser.errors) : parser.errors[i].msg # ""

(***************************************************************************)
(* C11: once the constructor has returned, and after every nextToken() of  *)
(* the parser, neither currentToken nor peekToken is a COMMENT, whatever   *)
(* the source (a comment as first or second token included).               *)
(***************************************************************************)
C11_NoCommentInWindow ==
    (parser # Undefined) =>
        /\ parser.currentToken.type # "COMMENT"
        /\ parser.peekToken.type # "COMMENT"

(***************************************************************************)
(* C12: expectPeek(t) with peekToken of type t advances the window by one  *)
(* token (currentToken becomes the old peekToken, peekToken the lexer's    *)
(* next token that is no comment), returns true and adds no diagnostic;    *)
(* otherwise it appends exactly one diagnostic, returns false and leaves   *)
(* currentToken, peekToken and the lexer as they were.                     *)
(***************************************************************************)
\* the lexer's next token that is no comment, and the lexer after it
RECURSIVE NextNonComment(_)
NextNonComment(L) ==
    With(nextToken(L), LAMBDA r :
    IF r.token.type = "COMMENT" THEN NextNonComment(r.lexer) ELSE r)

\* this step is a call of expectPeek
ExpectPeekCalled == psteps' # psteps /\ ppc' = "expectPeek"

C12_Step ==
    ExpectPeekCalled =>
        IF parser.peekToken.type = program'.type
        THEN /\ program'.value = TRUE
             /\ parser'.currentToken = parser.peekToken
             /\ parser'.peekToken = NextNonComment(parser.lexer).token
             /\ parser'.lexer = NextNonComment(parser.lexer).lexer
             /\ parser'.errors = parser.errors
        ELSE /\ program'.value = FALSE
             /\ Len(parser'.errors) = Len(parser.errors) + 1
             /\ SubSeq(parser'.errors, 1, Len(parser.errors)) = parser.errors
             /\ parser'.currentToken = parser.currentToken
             /\ parser'.peekToken = parser.peekToken
             /\ parser'.lexer = parser.lexer

C12_ExpectPeek == [][C12_Step]_vars

\* expectPeek has returned true, and then false with its one diagnostic
C12_Witness ==
    /\ ppc = "expectPeek"
    /\ program.value = FALSE
    /\ Len(parser.errors) = 1
    /\ parser.currentToken.type = "NEWLINE"
    /\ program.type = "IDENTIFIER"

(***************************************************************************)
(* C13: parseBlockStatement called with the cursor on ':' before NEWLINE   *)
(* INDENT s1 .. sn DEDENT, each si a well-formed simple statement ended by *)
(* NEWLINE, returns the BlockStatement of s1 .. sn in order, records no    *)
(* diagnostic and leaves currentToken on that DEDENT.                      *)
(***************************************************************************)
C13_BlockStatement ==
    \A lines \in BlockLines, rest \in BlockRests :
        (ppc = "parseBlockStatement" /\ Body(lexer.input) = BlockText(lines, rest)) =>
            /\ program = [kind |-> "BlockStatement",
                          statements |-> WellFormedNodes(lines)]
            /\ parser.errors = <<>>
            /\ parser.currentToken.type = "DEDENT"

(***************************************************************************)
(* C14: parseIfStatement on a well-formed chain if / elif* / else? returns *)
(* the IfStatement with the condition and block of the if, the elif        *)
(* branches in source order as alternatives and the else block as          *)
(* alternative exactly when there is one, records no diagnostic, and       *)
(* returns with the cursor on the token after the DEDENT of the last       *)
(* block.                                                                  *)
(***************************************************************************)
Name(ch) == [kind |-> "Identifier", name |-> <<ch>>]

\* the block of every branch: the expression statement b
BlockB ==
    [kind |-> "BlockStatement",
     statements |-> <<[kind |-> "ExpressionStatement", expression |-> Name("b")]>>]

\* the first token of rest, EOF when there is none
FollowingType(rest) == IF rest = <<>> THEN "EOF" ELSE "IDENTIFIER"

C14_IfStatement ==
    \A elifs \in ElifNames, hasElse \in BOOLEAN, rest \in BlockRests :
        (ppc = "parseIfStatement" /\ Body(lexer.input) = IfText(elifs, hasElse, rest)) =>
            /\ program =
                   [kind |-> "IfStatement", condition |-> Name("a"),
                    consequence |-> BlockB,
                    alternatives |->
                        [i \in 1..Len(elifs) |->
                            [condition |-> Name(elifs[i]), consequence |-> BlockB]],
                    alternative |-> IF hasElse THEN BlockB ELSE Undefined]
            /\ parser.errors = <<>>
            /\ parser.currentToken.type = FollowingType(rest)

(***************************************************************************)
(* C15: parseExpression(LOWEST) on 'a op1 b op2 c' returns                 *)
(* Binary(op1, a, Binary(op2, b, c)) when op2 has strictly higher          *)
(* precedence than op1 in the precedence table, and                        *)
(* Binary(op2, Binary(op1, a, b), c) otherwise; '1 + 2 * 3' has root '+'   *)
(* with right child '2 * 3'.                                               *)
(***************************************************************************)
\* the token type of a binary operator
OperatorType(op) ==
    CASE op = <<"+">> -> "PLUS"
      [] op = <<"-">> -> "MINUS"
      [] op = <<"*">> -> "MULTIPLY"
      [] op = <<"/">> -> "DIVIDE"
      [] op = <<"=", "=">> -> "EQUAL"
      [] op = <<"!", "=">> -> "NOT_EQUAL"
      [] op = <<"<">> -> "LESS"
      [] op = <<">">> -> "GREATER"
      [] op = <<"<", "=">> -> "LESS_EQUAL"
      [] op = <<">", "=">> -> "GREATER_EQUAL"
      [] op = <<"a", "n", "d">> -> "AND"
      [] op = <<"o", "r">> -> "OR"

Binary(op, left, right) ==
    [kind |-> "BinaryExpression", left |-> left, operator |-> op, right |-> right]

Integer(n) == [kind |-> "IntegerLiteral", value |-> n]

\* the tree the precedence table gives x op1 y op2 z
BinaryTree(x, op1, y, op2, z) ==
    IF precedences(OperatorType(op2)) > precedences(OperatorType(op1))
    THEN Binary(op1, x, Binary(op2, y, z))
    ELSE Binary(op2, Binary(op1, x, y), z)

ElementNode(text) ==
    CASE text = <<"1">> -> Integer(1)
      [] text = <<"a">> -> Name("a")
      [] text = <<"[", "1", "]">> ->
             [kind |-> "ListLiteral", elements |-> <<Integer(1)>>]
      [] text = <<"g", "(", "1", ")">> ->
             [kind |-> "FunctionCall", function |-> Name("g"),
              arguments |-> <<Integer(1)>>]

ElementNodes(elems) == [i \in 1..Len(elems) |-> ElementNode(elems[i])]

C16_CallOrInstance ==
    \A name \in CalleeNames, args \in ArgumentLists :
        (ppc = "parseExpression" /\ Body(lexer.input) = CallText(name, args)) =>
            program =
                IF name[1] \in UpperLetters
                THEN [kind |-> "InstanceCreation",
                      className |-> [kind |-> "Identifier", name |-> name],
                      arguments |-> ElementNodes(args)]
                ELSE [kind |-> "FunctionCall",
                      function |-> [kind |-> "Identifier", name |-> name],
                      arguments |-> ElementNodes(args)]

\* both kinds of node were returned for two arguments
C16_Witness ==
    /\ ppc = "parseExpression"
    /\ Body(lexer.input) = CallText(<<"A", "b">>, <<<<"1">>, <<"a">>>>)
    /\ program.kind = "InstanceCreation"
    /\ Len(program.arguments) = 2

(***************************************************************************)
(* C17: a call with a labelled argument 'name: expression', as in          *)
(* 'Counter(start: 10)', parses as an expression to an InstanceCreation    *)
(* with that class name (a FunctionCall for a lowercase callee), consumes  *)
(* through the closing ')' and records no diagnostic.                      *)
(***************************************************************************)
C17_LabelledArgument ==
    \A name \in CalleeNames :
        (ppc = "parseExpression" /\ Body(lexer.input) = LabelledText(name)) =>
            /\ IF name[1] \in UpperLetters
               THEN /\ program.kind = "InstanceCreation"
                    /\ program.className = [kind |-> "Identifier", name |-> name]
               ELSE /\ program.kind = "FunctionCall"
                    /\ program.function = [kind |-> "Identifier", name |-> name]
            /\ parser.currentToken.type = "RIGHT_PAREN"
            /\ parser.errors = <<>>

(***************************************************************************)
(* C18: for every non-empty list of expressions, the bracketed list with a *)
(* trailing comma and the one without parse to the ListLiteral of the same *)
(* elements in the same order, without diagnostics and with the cursor on  *)
(* the closing ']'; likewise the argument list of a call and its ')'.      *)
(***************************************************************************)
\* the cursor is on the last token of the text, of the given type
OnClosing(type) ==
    /\ parser.currentToken.type = type
    /\ parser.currentToken.column = Len(Body(lexer.input))
    /\ parser.peekToken.type = "EOF"

C18_TrailingComma ==
    \A elems \in ElementLists, trailing \in BOOLEAN :
        /\ (ppc = "parseExpression" /\ Body(lexer.input) = ListText(elems, trailing)) =>
               /\ program = [kind |-> "ListLiteral", elements |-> ElementNodes(elems)]
               /\ parser.errors = <<>>
               /\ OnClosing("RIGHT_BRACKET")
        /\ (ppc = "parseExpression"
               /\ Body(lexer.input) = ArgumentsText(elems, trailing)) =>
               /\ program = [kind |-> "FunctionCall", function |-> Name("f"),
                             arguments |-> ElementNodes(elems)]
               /\ parser.errors = <<>>
               /\ OnClosing("RIGHT_PAREN")

(***************************************************************************)
(* C19: outside a class 'self' in expression position appends a diagnostic *)
(* and still yields the SelfExpression node, and 'func' followed by 'init' *)
(* at statement position appends a diagnostic and yields no                *)
(* FunctionDeclaration; inside a class 'self' appends no diagnostic.       *)
(***************************************************************************)
SelfDiagnostic ==
    Error("'self' keyword used outside of a class method or initializer", <<>>, 2)

InitDiagnostic ==
    Error("Parser Error: 'init' found outside of class definition", <<>>, 2)

SelfExpression == [kind |-> "SelfExpression", name |-> <<"s", "e", "l", "f">>]

\* the node of 'self' or of 'self.m', m being the character at position i
SelfValue(text, i) ==
    IF Len(text) >= i /\ text[i - 1] = "."
    THEN [kind |-> "MemberAccess", object |-> SelfExpression, property |-> Name(text[i])]
    ELSE SelfExpression

C19_ClassOnly ==
    LET text == Body(lexer.input) IN
    /\ (ppc = "parseExpression" /\ text \in SelfTexts) =>
           /\ parser.errors = <<SelfDiagnostic>>
           /\ program = SelfValue(text, 6)
    /\ (ppc = "parseStatement" /\ text \in SelfTexts) =>
           /\ Len(parser.errors) >= 1
           /\ parser.errors[1] = SelfDiagnostic
           /\ program = [kind |-> "ExpressionStatement", expression |-> SelfValue(text, 6)]
    /\ (ppc = "parseStatement" /\ text \in InitTexts) =>
           /\ parser.errors = <<InitDiagnostic>>
           /\ program = Null
    /\ (ppc = "parseStatement" /\ text \in ClassSelfTexts) =>
           /\ \A i \in DOMAIN parser.errors : parser.errors[i].msg # SelfDiagnostic.msg
           /\ program.kind = "ClassDeclaration"
           /\ Len(program.members) = 1
           /\ program.members[1].initializer = SelfValue(text, Len(text) - 1)

C19_Witness ==
    /\ ppc = "parseStatement"
    /\ Body(lexer.input) \in SelfTexts \cup InitTexts \cup ClassSelfTexts
    /\ Len(parser.errors) = 1
    /\ program.kind \in {"ExpressionStatement", "null", "ClassDeclaration"}

(***************************************************************************)
(* C20: parseStatement on an assignment 'target = expression' followed by  *)
(* NEWLINE, the target being an identifier, a member access or a subscript *)
(* access, returns a statement, consumes the tokens through the NEWLINE    *)
(* and records no diagnostic.                                              *)
(***************************************************************************)
C20_Assignment ==
    (ppc = "parseStatement" /\ Body(lexer.input) \in AssignmentTexts) =>
        /\ program \notin {Null, Hanging}
        /\ parser.errors = <<>>
        /\ parser.currentToken.type = "NEWLINE"
        /\ parser.peekToken.type = "EOF"

(***************************************************************************)
(* C21: a dictionary literal of n >= 1 entries parses to the DictLiteral   *)
(* of its n items in source order without diagnostic, with or without a    *)
(* trailing comma, and the cursor ends on the closing '}'.                 *)
(***************************************************************************)
DictItemNodes(items) ==
    [i \in 1..Len(items) |->
        [kind |-> "DictItem", key |-> ElementNode(items[i][1]),
         value |-> ElementNode(items[i][2])]]

C21_DictLiteral ==
    \A items \in DictItems, trailing \in BOOLEAN :
        (ppc = "parseExpression" /\ Body(lexer.input) = DictText(items, trailing)) =>
            /\ program = [kind |-> "DictLiteral", items |-> DictItemNodes(items)]
            /\ parser.errors = <<>>
            /\ OnClosing("RIGHT_BRACE")

(***************************************************************************)
(* C22: a bare 'return' followed by a single NEWLINE and further tokens    *)
(* parses to a ReturnStatement without returnValue and records no          *)
(* diagnostic.                                                             *)
(***************************************************************************)
C22_BareReturn ==
    (ppc = "parseStatement" /\ Body(lexer.input) \in ReturnTexts) =>
        /\ program = [kind |-> "ReturnStatement", returnValue |-> Undefined]
        /\ parser.errors = <<>>

(***************************************************************************)
(* C23: where '==', '!=', '<=', '>=' or '->' stands at the cursor, the     *)
(* call returns the one two-character token with both characters as        *)
(* literal and moves past both; the one-character token is never followed  *)
(* by a token that starts with the second character right behind it; 'a->b'*)
(* and 'a<=b' give IDENTIFIER, ARROW or LESS_EQUAL, IDENTIFIER.            *)
(***************************************************************************)
TwoCharacterTokens ==
    { <<"=", "=", "EQUAL">>, <<"!", "=", "NOT_EQUAL">>, <<"<", "=", "LESS_EQUAL">>,
      <<">", "=", "GREATER_EQUAL">>, <<"-", ">", "ARROW">> }

C23_Step ==
    \A pair \in TwoCharacterTokens :
        (/\ Called
         /\ lexer.pendingTokens = <<>>
         /\ lexer.ch = pair[1]
         /\ CharAt(lexer.input, lexer.position + 1) = pair[2]
         /\ (lexer.column # 1 \/ Top(lexer.indentStack) = 0)) =>
            /\ Result = Token(pair[3], <<pair[1], pair[2]>>, lexer.line, lexer.column)
            /\ lexer'.pendingTokens = <<>>
            /\ lexer'.position = lexer.position + 2
            /\ lexer'.ch = CharAt(lexer.input, lexer.position + 2)

\* no one-character token with the second character starting the next token
C23_Never ==
    \A i \in 1..(Len(returned) - 1) :
        \A pair \in TwoCharacterTokens :
            ~ /\ returned[i].literal = <<pair[1]>>
              /\ returned[i + 1].type \notin {"STRING", "COMMENT"}
              /\ returned[i + 1].literal # <<>>
              /\ Head(returned[i + 1].literal) = pair[2]
              /\ returned[i + 1].line = returned[i].line
              /\ returned[i + 1].column = returned[i].column + 1

\* the types and literals of the tokens returned for an example
Lexed(first, operator, second) ==
    \A i \in 1..Len(returned) :
        <<returned[i].type, returned[i].literal>> =
            CASE i = 1 -> <<"IDENTIFIER", first>>
              [] i = 2 -> operator
              [] i = 3 -> <<"IDENTIFIER", second>>
              [] OTHER -> <<"EOF", <<>> >>

C23_Examples ==
    /\ lexer.input = Example_arrow => Lexed(<<"a">>, <<"ARROW", <<"-", ">">> >>, <<"b">>)
    /\ lexer.input = Example_lessEqual =>
           Lexed(<<"a">>, <<"LESS_EQUAL", <<"<", "=">> >>, <<"b">>)

C23_TwoCharacter == [][C23_Step]_vars /\ []C23_Never /\ []C23_Examples

\* 'a->b' was scanned to its end
C23_Witness ==
    /\ lexer.input = Example_arrow
    /\ Len(returned) >= 4
    /\ returned[2].type = "ARROW"
    /\ returned[4].type = "EOF"

(***************************************************************************)
(* C24: from an opening double quote the call returns one STRING token     *)
(* that ends at the first later double quote preceded by an even number of *)
(* consecutive backslashes; its literal is the characters strictly between *)
(* the quotes and the closing quote is consumed.  If there is no such      *)
(* quote the call returns one ILLEGAL token 'Unterminated string'.         *)
(***************************************************************************)
\* the number of consecutive backslashes of input just before index j, the
\* indices up to `open` not counted
Backslashes(input, open, j) ==
    CHOOSE n \in 0..(j - open - 1) :
        /\ \A k \in (j - n)..(j - 1) : input[k] = "\\"
        /\ (j - n - 1 > open) => input[j - n - 1] # "\\"

\* the indices of the quotes that can close the string opened at `open`
Closing(input, open) ==
    {j \in (open + 1)..Len(input) :
        input[j] = "\"" /\ Backslashes(input, open, j) % 2 = 0}

Minimum(S) == CHOOSE j \in S : \A k \in S : j <= k

C24_Step ==
    (/\ Called
     /\ lexer.pendingTokens = <<>>
     /\ lexer.ch = "\""
     /\ (lexer.column # 1 \/ Top(lexer.indentStack) = 0)) =>
        LET open == lexer.position + 1
            closing == Closing(lexer.input, open)
        IN  /\ lexer'.pendingTokens = <<>>
            /\ IF closing # {}
               THEN /\ Result.type = "STRING"
                    /\ Result.literal =
                           SubSeq(lexer.input, open + 1, Minimum(closing) - 1)
                    /\ lexer'.position = Minimum(closing)
               ELSE /\ Result.type = "ILLEGAL"
                    /\ Result.literal = UnterminatedString
                    /\ isAtEnd(lexer')

C24_String == [][C24_Step]_vars

\* a string holding an escaped quote was scanned up to its closing quote
C24_Witness ==
    /\ returned # <<>>
    /\ returned[1].type = "STRING"
    /\ returned[1].literal = <<"\\", "\"">>
    /\ isAtEnd(lexer)

(***************************************************************************)
(* C25: every token the lexer returns, the structural tokens NEWLINE,      *)
(* INDENT, DEDENT, EOF and the ILLEGAL tokens included, carries a line     *)
(* >= 1 and a column >= 1.                                                 *)
(***************************************************************************)
C25_OneBased ==
    \A i \in 1..Len(returned) : returned[i].line >= 1 /\ returned[i].column >= 1

(***************************************************************************)
(* C26: in the program loop of parseProgram and in the statement loop of   *)
(* parseBlockStatement, when a parseStatement attempt yields no statement  *)
(* the cursor has advanced by at least one token before the loop makes its *)
(* next parseStatement attempt.                                            *)
(***************************************************************************)
\* the parser as parseStatement is called on it by the loop at pc
Attempt(P, pc) == IF pc = "block" THEN skipNewlines(P) ELSE P

\* the loop at pc calls parseStatement from P
Attempts(P, pc) ==
    IF pc = "block" THEN ~AtBlockEnd(P) /\ ~AtBlockEnd(skipNewlines(P))
    ELSE ~currentTokenIs(P, "EOF")

\* an iteration of either loop ended without a statement and the loop goes on
YieldedNothing ==
    /\ psteps' # psteps
    /\ ppc \in {"loop", "block"}
    /\ ppc' = ppc
    /\ Attempts(parser, ppc)
    /\ program'.statements = program.statements
    /\ Attempts(parser', ppc)

C26_Step ==
    YieldedNothing => Cursor(Attempt(parser', ppc)) # Cursor(Attempt(parser, ppc))

C26_ForcedProgress == [][C26_Step]_vars

(***************************************************************************)
(* C27: once the constructor has returned, currentToken is the first token *)
(* of the lexer's stream that is no comment and peekToken the next one     *)
(* that is no comment: no such token is discarded before parseProgram().   *)
(***************************************************************************)
C27_ConstructorKeepsFirst ==
    (ppc = "constructed") =>
        /\ parser.currentToken = NextNonComment(Lexer(lexer.input)).token
        /\ parser.peekToken =
               NextNonComment(NextNonComment(Lexer(lexer.input)).lexer).token

(***************************************************************************)
(* C28: every call of parseStatement that returns a statement node has     *)
(* advanced the cursor by at least one token, also when the NEWLINE that   *)
(* ends the statement is missing.                                          *)
(***************************************************************************)
C28_Step ==
    (/\ psteps' # psteps
     /\ ppc' = "parseStatement"
     /\ program' \notin {Null, Hanging}) =>
        Cursor(parser') # Cursor(parser)

C28_StatementAdvances == [][C28_Step]_vars

(***************************************************************************)
(* C29: a well-formed class declaration, 'class C:' NEWLINE INDENT typed   *)
(* member variable declarations DEDENT, parses to the ClassDeclaration     *)
(* whose members are exactly those declarations in order, records no       *)
(* diagnostic and leaves isInClass as it was before the call.              *)
(***************************************************************************)
MemberNode(line) ==
    [kind |-> "VariableDeclaration",
     isConstant |-> (line = Member_let),
     identifier |-> Name(IF line = Member_let THEN "x" ELSE "y"),
     typeAnnotation |-> [kind |-> "TypeAnnotation", typeName |-> Name("T")],
     initializer |-> IF line = Member_let THEN Undefined ELSE Integer(1)]

ClassNode(members) ==
    [kind |-> "ClassDeclaration", name |-> Name("C"),
     members |-> [i \in 1..Len(members) |-> MemberNode(members[i])]]

C29_ClassDeclaration ==
    \A members \in MemberLines :
        (ppc = "parseStatement" /\ Body(lexer.input) = ClassText(members)) =>
            /\ program = ClassNode(members)
            /\ parser.errors = <<>>
            /\ parser.isInClass = FALSE

(***************************************************************************)
(* C30: each nextToken() call returns a structural token of the pending    *)
(* queue, or consumes at least one character of the input, or finds the    *)
(* cursor at end of input; so repeated calls return EOF after finitely     *)
(* many calls and tokenize() terminates.                                   *)
(***************************************************************************)
\* the tags of the tokens that stand for no operator, name or literal
StructuralTypes == {"NEWLINE", "INDENT", "DEDENT", "EOF", "ILLEGAL"}

\* the call returns with this.pendingTokens.shift()
ReturnsPending ==
    /\ \/ lexer.pendingTokens # <<>>
       \/ skipWhitespace(lexer).pendingTokens # <<>>
    /\ Result.type \in StructuralTypes

C30_Step ==
    Called =>
        \/ ReturnsPending
        \/ lexer'.position > lexer.position
        \/ isAtEnd(lexer)

\* tokenize() has returned, or the caller that pulls was given EOF
C30_Finished ==
    \/ lpc = "returned"
    \/ lpc = "pull" /\ EofCount(returned) >= 1

C30_Progress == [][C30_Step]_vars /\ <>C30_Finished

\* EOF was returned after the DEDENT and the ILLEGAL of a bad indentation
C30_Witness ==
    /\ lpc = "pull"
    /\ EofCount(returned) >= 1
    /\ \E i \in 1..(Len(returned) - 1) :
           /\ returned[i].type = "DEDENT"
           /\ returned[i + 1].type = "ILLEGAL"
           /\ returned[i + 1].literal = InvalidIndentation

(***************************************************************************)
(* C3: the token list returned by tokenize() is non-empty, its last token  *)
(* is EOF and EOF occurs in it exactly once, for every input.              *)
(***************************************************************************)
C3_TokenizeEndsWithOneEof ==
    lpc = "returned" =>
        /\ lexer.tokens # <<>>
        /\ lexer.tokens[Len(lexer.tokens)].type = "EOF"
        /\ CountType(lexer.tokens, "EOF") = 1

(***************************************************************************)
(* C4: for an input indented only with multiples of 4 spaces, the list     *)
(* returned by tokenize() has as many INDENTs as DEDENTs, and no prefix of *)
(* it has more DEDENTs than INDENTs.                                       *)
(***************************************************************************)
C4_TokenizeBalancesIndents ==
    (lpc = "returned" /\ FourSpaceIndented(lexer.input)) =>
        /\ CountType(lexer.tokens, "INDENT") = CountType(lexer.tokens, "DEDENT")
        /\ \A n \in 0..Len(lexer.tokens) :
              CountType(SubSeq(lexer.tokens, 1, n), "DEDENT")
                  <= CountType(SubSeq(lexer.tokens, 1, n), "INDENT")

(***************************************************************************)
(* C5: a nextToken() call that reaches end of input with the indent stack  *)
(* [0, i1, ..., ik] produces k DEDENTs and then EOF and leaves the stack   *)
(* [0]; the pending ones are returned in that order; every call after the  *)
(* first EOF returns EOF; up to the first EOF the stream holds as many     *)
(* INDENTs as DEDENTs.                                                     *)
(***************************************************************************)
\* nothing but blanks is left to scan and nothing is pending
ReachesEnd(L) ==
    /\ L.pendingTokens = <<>>
    /\ \A i \in (L.position + 1)..Len(L.input) : L.input[i] \in {" ", "\t", "\r"}

C5_Step ==
    Called =>
        /\ ReachesEnd(lexer) =>
              /\ Types(<<Result>> \o lexer'.pendingTokens)
                     = Repeat(Len(lexer.indentStack) - 1, "DEDENT", <<"EOF">>)
              /\ lexer'.indentStack = <<0>>
        /\ lexer.pendingTokens # <<>> =>
              /\ Result = Head(lexer.pendingTokens)
              /\ lexer'.pendingTokens = Tail(lexer.pendingTokens)

C5_Stream ==
    LET e == FirstEof(returned)
    IN  e > 0 =>
          /\ \A i \in e..Len(returned) : returned[i].type = "EOF"
          /\ CountType(SubSeq(returned, 1, e), "INDENT")
                 = CountType(SubSeq(returned, 1, e), "DEDENT")
          /\ lexer.indentStack = <<0>>

C5_EofDedents == [][C5_Step]_vars /\ []C5_Stream

\* two DEDENTs at end of input, the EOF and two more EOFs were returned
C5_Witness ==
    /\ Len(returned) >= 5
    /\ SubSeq(Types(returned), Len(returned) - 4, Len(returned))
           = <<"DEDENT", "DEDENT", "EOF", "EOF", "EOF">>
    /\ returned[Len(returned) - 3].column > 0

(***************************************************************************)
(* C6: the indent stack is never empty, its bottom is 0 and it increases   *)
(* strictly from bottom to top; a call pushes one entry exactly when it    *)
(* enqueues one INDENT and pops one entry per DEDENT it enqueues.          *)
(***************************************************************************)
StackWellFormed(stack) ==
    /\ Len(stack) >= 1
    /\ stack[1] = 0
    /\ \A i \in 1..(Len(stack) - 1) : stack[i] < stack[i + 1]

C6_Step ==
    Called =>
        LET indents == CountType(Enqueued, "INDENT")
            dedents == CountType(Enqueued, "DEDENT")
            stack == lexer.indentStack
        IN  IF indents > 0
            THEN /\ indents = 1 /\ dedents = 0
                 /\ Len(lexer'.indentStack) = Len(stack) + 1
                 /\ SubSeq(lexer'.indentStack, 1, Len(stack)) = stack
            ELSE /\ dedents < Len(stack)
                 /\ lexer'.indentStack = SubSeq(stack, 1, Len(stack) - dedents)

C6_IndentStack == [][C6_Step]_vars /\ [](StackWellFormed(lexer.indentStack))

\* two pushes and a pop have happened
C6_Witness ==
    /\ CountType(returned, "INDENT") >= 2
    /\ CountType(returned, "DEDENT") >= 1
    /\ Len(lexer.indentStack) = 2

(***************************************************************************)
(* C7: at column 1 of a code line whose indent is below the top of the     *)
(* stack, the call enqueues one DEDENT per entry above the indent, and     *)
(* after them one ILLEGAL 'Invalid indentation' exactly when the indent    *)
(* equals no stack entry; the first character of the line's code is not    *)
(* scanned yet.                                                            *)
(***************************************************************************)
C7_Step ==
    (Called /\ lexer.pendingTokens = <<>> /\ lexer.column = 1) =>
        LET lead == LeadingWidth(lexer.input, lexer.position)
            first == CharAt(lexer.input, lexer.position + lead.chars)
            stack == lexer.indentStack
            above == Cardinality({i \in 1..Len(stack) : stack[i] > lead.width})
            produced == <<Result>> \o lexer'.pendingTokens
        IN  (first \notin {"\n", "\r", "#", ""} /\ lead.width < Top(stack)) =>
              /\ IF lead.width \in Range(stack)
                 THEN Types(produced) = Repeat(above, "DEDENT", <<>>)
                 ELSE /\ Types(produced) = Repeat(above, "DEDENT", <<"ILLEGAL">>)
                      /\ produced[above + 1].literal = InvalidIndentation
              /\ lexer'.indentStack = SubSeq(stack, 1, Len(stack) - above)
              /\ lexer'.position = lexer.position + lead.chars
              /\ lexer'.ch = first

C7_InvalidIndentation == [][C7_Step]_vars

\* two DEDENTs and the ILLEGAL token of one line, and a plain DEDENT elsewhere
C7_Witness ==
    /\ \E i \in 1..(Len(returned) - 3) :
          /\ SubSeq(Types(returned), i, i + 3)
                 = <<"DEDENT", "DEDENT", "ILLEGAL", "IDENTIFIER">>
          /\ returned[i + 2].literal = InvalidIndentation

\* DEDENTs to a level of the stack, with no ILLEGAL token
C7_WitnessExact ==
    \E i \in 1..(Len(returned) - 2) :
        /\ SubSeq(Types(returned), i, i + 2) = <<"DEDENT", "DEDENT", "IDENTIFIER">>
        /\ returned[i].column = 0

(***************************************************************************)
(* C8: every line feed outside a string literal yields exactly one NEWLINE *)
(* token and increments the line counter, the line feed that ends a        *)
(* comment included.                                                       *)
(***************************************************************************)
C8_EveryLineFeedOneNewline ==
    (lpc = "pull" /\ FirstEof(returned) > 0 /\ "\"" \notin Range(lexer.input)) =>
        /\ CountType(returned, "NEWLINE") = CountChar(lexer.input, "\n")
        /\ lexer.line = 1 + CountChar(lexer.input, "\n")

(***************************************************************************)
(* C9: a call made while tokens are pending returns the oldest of them and *)
(* leaves cursor, line, column and indent stack alone; so the INDENT,      *)
(* DEDENT and 'Invalid indentation' tokens of a line come after the        *)
(* NEWLINE of the line before and before the first token of their line.    *)
(***************************************************************************)
C9_Step ==
    (Called /\ lexer.pendingTokens # <<>>) =>
        /\ Result = Head(lexer.pendingTokens)
        /\ lexer'.pendingTokens = Tail(lexer.pendingTokens)
        /\ lexer'.position = lexer.position
        /\ lexer'.readPosition = lexer.readPosition
        /\ lexer'.ch = lexer.ch
        /\ lexer'.line = lexer.line
        /\ lexer'.column = lexer.column
        /\ lexer'.indentStack = lexer.indentStack

C9_Order ==
    \A i \in 1..Len(returned) :
        IsLineStructural(returned[i]) =>
            /\ \/ i = 1
               \/ IsLineStructural(returned[i - 1])
               \/ returned[i - 1].type = "NEWLINE"
            /\ i < Len(returned) =>
                  \/ IsLineStructural(returned[i + 1])
                  \/ returned[i + 1].type
                         \notin {"NEWLINE", "COMMENT", "EOF", "INDENT", "DEDENT"}

C9_PendingFirst == [][C9_Step]_vars /\ []C9_Order

\* a NEWLINE, then the DEDENT and ILLEGAL of the next line, then its code
C9_Witness ==
    \E i \in 1..(Len(returned) - 3) :
        /\ SubSeq(Types(returned), i, i + 3)
               = <<"NEWLINE", "DEDENT", "ILLEGAL", "IDENTIFIER">>
        /\ returned[i + 2].literal = InvalidIndentation

(***************************************************************************)
(* C10: every call returns a token; a character matched by no rule (a '!'  *)
(* not followed by '=' included) yields one ILLEGAL token whose literal is *)
(* that character, and the cursor moves past that one character.           *)
(***************************************************************************)
TokenTypes ==
    {"LET", "VAR", "FUNC", "CLASS", "INIT", "SELF", "IF", "ELIF", "ELSE", "WHILE",
     "FOR", "IN", "RETURN", "TRUE", "FALSE", "AND", "OR", "NOT",
     "INTEGER", "FLOAT", "STRING", "IDENTIFIER",
     "PLUS", "MINUS", "MULTIPLY", "DIVIDE", "ASSIGN", "EQUAL", "NOT_EQUAL",
     "LESS", "GREATER", "LESS_EQUAL", "GREATER_EQUAL",
     "DOT", "COMMA", "COLON", "ARROW", "LEFT_PAREN", "RIGHT_PAREN",
     "LEFT_BRACKET", "RIGHT_BRACKET", "LEFT_BRACE", "RIGHT_BRACE",
     "NEWLINE", "INDENT", "DEDENT", "COMMENT", "EOF", "ILLEGAL"}

\* the characters some rule of the lexer starts with ('!' apart)
RuleChars ==
    LowerLetters \cup UpperLetters \cup Digits \cup
    {"_", "=", "+", "-", "*", "/", "<", ">", ".", ",", ":", "(", ")", "[", "]",
     "{", "}", "#", "\"", " ", "\t", "\r", "\n", ""}

\* the character under the cursor is matched by no rule
Unmatched(L) ==
    \/ L.ch \notin RuleChars \cup {"!"}
    \/ L.ch = "!" /\ CharAt(L.input, L.position + 1) # "="

C10_Step ==
    Called =>
        /\ Result.type \in TokenTypes
        /\ Result.line \in Nat /\ Result.column \in Nat
        /\ (/\ lexer.pendingTokens = <<>>
            /\ Unmatched(lexer)
            /\ (lexer.column # 1 \/ Top(lexer.indentStack) = 0)) =>
              /\ Result = Token("ILLEGAL", <<lexer.ch>>, lexer.line, lexer.column)
              /\ lexer'.pendingTokens = <<>>
              /\ lexer'.position = lexer.position + 1
              /\ lexer'.ch = CharAt(lexer.input, lexer.position + 1)

C10_IllegalCharacter == [][C10_Step]_vars

\* a lone '!' and an unknown character were reported and scanning went on
C10_Witness ==
    \E i \in 1..(Len(returned) - 2) :
        /\ returned[i].type = "ILLEGAL" /\ returned[i].literal = <<"!">>
        /\ returned[i + 1].type = "ILLEGAL" /\ returned[i + 1].literal = <<"@">>
        /\ returned[i + 2].type = "IDENTIFIER"
====
